---- MODULE Spec2Model ----
(***************************************************************************)
(* Coordinate maps of cogent3.core.location: the run-length encoded        *)
(* IndelMap (gap_pos / cum_gap_lengths / parent_length) and the operations *)
(* that convert between sequence and alignment coordinates, slice,         *)
(* concatenate, scale, merge, join, reverse and serialise it; and the      *)
(* FeatureMap, a list of Span / LostSpan segments over a parent, with its  *)
(* construction from locations, its union (covered) and its inverse.       *)
(*                                                                         *)
(* numpy arrays and python lists are modelled as sequences; python's       *)
(* 0-based index i is element i+1 of the sequence (see At).  A call        *)
(* returns a result record: an integer, a map, a dictionary, None, or the  *)
(* exception it raises.                                                    *)
(***************************************************************************)
EXTENDS Integers, Sequences, FiniteSets, TLC

\* ---------------------------------------------------------------- bounds
\* largest parent_length of the maps the model starts from
MaxLen == 2
\* largest number of gap runs of the maps the model starts from
MaxGaps == 2
\* largest length of one gap run of the maps the model starts from
MaxGapLen == 2
\* largest scale factor passed to __mul__
MaxScale == 2
\* largest number of (start, end) ranges passed to joined_segments
MaxSegs == 2
\* largest len() of a map joined_segments is called on
MaxJoinLen == 3
\* largest parent_length of the right operand of +
MaxOtherLen == 1
\* largest parent_length of the FeatureMaps the model starts from
MaxFLen == 3
\* largest number of spans of the FeatureMaps the model starts from
MaxSpans == 2
\* largest length of a LostSpan of the FeatureMaps the model starts from
MaxLost == 1
\* largest position passed to absolute_position and relative_position
MaxPos == 3
\* largest coordinate of a location passed to from_locations
MaxCoord == 3
\* largest number of locations passed to from_locations
MaxLocs == 2
\* largest parent_length passed to from_locations
MaxParent == 2
\* how far below 0 a span passed to remap_with may start
MaxBelow == 2

\* ------------------------------------------------------- python values
None == <<>>
Some(v) == <<v>>
IsNone(o) == Len(o) = 0
Get(o) == o[1]

IntRes(v) == [kind |-> "int", val |-> v]
MapRes(m) == [kind |-> "map", val |-> m]
DictRes(d) == [kind |-> "dict", val |-> d]
ListRes(l) == [kind |-> "list", val |-> l]
NoneRes == [kind |-> "none"]
Raise(e) == [kind |-> "raise", exc |-> e]

\* arr[i] with python's index rules (negative indices count from the end)
At(arr, i) == IF i >= 0 THEN arr[i + 1] ELSE arr[Len(arr) + i + 1]

\* arr[b:e] for 0 <= b, 0 <= e <= len(arr)
PySlice(arr, b, e) == SubSeq(arr, b + 1, e)

\* numpy.searchsorted(arr, v, side="left") on an ascending array
SearchSortedLeft(arr, v) == Cardinality({i \in 1..Len(arr) : arr[i] < v})

\* numpy.searchsorted(arr, v, side="right") on an ascending array
SearchSortedRight(arr, v) == Cardinality({i \in 1..Len(arr) : arr[i] <= v})

\* numpy cumsum
RECURSIVE SumTo(_, _)
SumTo(arr, n) == IF n = 0 THEN 0 ELSE SumTo(arr, n - 1) + arr[n]

CumSum(arr) == [i \in 1..Len(arr) |-> SumTo(arr, i)]

\* sorted(set of integers) as a sequence
RECURSIVE SortedSeq(_)
SortedSeq(S) ==
    IF S = {} THEN <<>>
    ELSE LET lo == CHOOSE x \in S : \A y \in S : x <= y
         IN <<lo>> \o SortedSeq(S \ {lo})

\* ------------------------------------------------------------ IndelMap
\* IndelMap.__init__ / MapABC.__new__ / IndelMap.__post_init__
PostInit(gap_pos, cum_gap_lengths, gap_lengths, termini_unknown, parent_length) ==
    IF ~(IsNone(gap_lengths) \/ IsNone(cum_gap_lengths)) THEN Raise("AssertionError")
    ELSE IF IsNone(gap_lengths) /\ IsNone(cum_gap_lengths) THEN Raise("TypeError")
    ELSE LET cum == IF ~IsNone(gap_lengths) THEN CumSum(Get(gap_lengths))
                    ELSE Get(cum_gap_lengths)
             num_gaps == Len(gap_pos)
         IN IF Len(gap_pos) # Len(cum) THEN Raise("ValueError")
            ELSE IF num_gaps # 0 /\ At(gap_pos, -1) > parent_length THEN Raise("ValueError")
            ELSE MapRes([gap_pos |-> gap_pos,
                         cum_gap_lengths |-> cum,
                         termini_unknown |-> termini_unknown,
                         parent_length |-> parent_length,
                         num_gaps |-> num_gaps,
                         serialisable |-> [gap_pos |-> gap_pos,
                                           cum_gap_lengths |-> cum_gap_lengths,
                                           termini_unknown |-> termini_unknown,
                                           parent_length |-> parent_length]])

\* gap_coords_to_map: gaps_lengths is a dictionary {insertion point: length}
GapCoordsToMap(gaps_lengths, seq_length) ==
    LET gap_pos == SortedSeq(DOMAIN gaps_lengths)
        lengths == [i \in 1..Len(gap_pos) |-> gaps_lengths[gap_pos[i]]]
    IN PostInit(gap_pos, None, Some(lengths), FALSE, seq_length)

\* _gap_spans: gap starts and gap ends in alignment coordinates
GapStarts(gap_pos, cum_gap_lengths) ==
    [i \in 1..Len(gap_pos) |->
        IF i = 1 THEN gap_pos[i] ELSE gap_pos[i] + cum_gap_lengths[i - 1]]

GapEnds(gap_pos, cum_gap_lengths) ==
    [i \in 1..Len(gap_pos) |-> gap_pos[i] + cum_gap_lengths[i]]

\* __len__ reading the first cumulative length instead of the last
MapLenFirstCum(m) ==
    LET length_gaps == IF m.num_gaps # 0 THEN At(m.cum_gap_lengths, 0) ELSE 0
    IN m.parent_length + length_gaps

\* IndelMap.__len__
MapLen(m) ==
    LET length_gaps == IF m.num_gaps # 0 THEN At(m.cum_gap_lengths, -1) ELSE 0
    IN m.parent_length + length_gaps

\* IndelMap.get_gap_lengths
GetGapLengths(m) ==
    [i \in 1..Len(m.cum_gap_lengths) |->
        IF i = 1 THEN m.cum_gap_lengths[1]
        ELSE m.cum_gap_lengths[i] - m.cum_gap_lengths[i - 1]]

\* as get_gap_coordinates, but pairing each position with the cumulative length
GetGapCoordinatesCum(m) ==
    ListRes([i \in 1..Len(m.gap_pos) |-> <<m.gap_pos[i], m.cum_gap_lengths[i]>>])

\* IndelMap.get_gap_coordinates: [[gap position, gap length], ...]
GetGapCoordinates(m) ==
    ListRes([i \in 1..Len(m.gap_pos) |-> <<m.gap_pos[i], GetGapLengths(m)[i]>>])

\* get_align_index adding only the last run's length after the last gap
GetAlignIndexLastRun(m, seq_index_in, slice_stop) ==
    LET cum_lengths == m.cum_gap_lengths
        gap_pos == m.gap_pos
        seq_index == IF seq_index_in < 0 THEN seq_index_in + m.parent_length
                     ELSE seq_index_in
        match == {i \in 1..Len(gap_pos) : gap_pos[i] = seq_index}
    IN IF seq_index < 0 THEN Raise("IndexError")
       ELSE IF m.num_gaps = 0 \/ seq_index < At(gap_pos, 0) THEN IntRes(seq_index)
       ELSE IF slice_stop /\ match # {} THEN
            IF Cardinality(match) # 1 THEN Raise("ValueError")
            ELSE LET idx == (CHOOSE i \in match : TRUE) - 1
                     gap_len == IF idx # 0
                                THEN At(cum_lengths, idx) - At(cum_lengths, idx - 1)
                                ELSE At(cum_lengths, idx)
                     gap_end == At(gap_pos, idx) + At(cum_lengths, idx)
                 IN IntRes(gap_end - gap_len)
       ELSE IF seq_index >= At(gap_pos, -1)
            THEN IntRes(seq_index + At(GetGapLengths(m), -1))
       ELSE LET index == SearchSortedLeft(gap_pos, seq_index)
                gap_lengths == IF seq_index < At(gap_pos, index)
                               THEN (IF index # 0 THEN At(cum_lengths, index - 1) ELSE 0)
                               ELSE At(cum_lengths, index)
            IN IntRes(seq_index + gap_lengths)

\* IndelMap.get_align_index
GetAlignIndex(m, seq_index_in, slice_stop) ==
    LET cum_lengths == m.cum_gap_lengths
        gap_pos == m.gap_pos
        seq_index == IF seq_index_in < 0 THEN seq_index_in + m.parent_length
                     ELSE seq_index_in
        match == {i \in 1..Len(gap_pos) : gap_pos[i] = seq_index}
    IN IF seq_index < 0 THEN Raise("IndexError")
       ELSE IF m.num_gaps = 0 \/ seq_index < At(gap_pos, 0) THEN IntRes(seq_index)
       ELSE IF slice_stop /\ match # {} THEN
            IF Cardinality(match) # 1 THEN Raise("ValueError")
            ELSE LET idx == (CHOOSE i \in match : TRUE) - 1
                     gap_len == IF idx # 0
                                THEN At(cum_lengths, idx) - At(cum_lengths, idx - 1)
                                ELSE At(cum_lengths, idx)
                     gap_end == At(gap_pos, idx) + At(cum_lengths, idx)
                 IN IntRes(gap_end - gap_len)
       ELSE IF seq_index >= At(gap_pos, -1) THEN IntRes(seq_index + At(cum_lengths, -1))
       ELSE LET index == SearchSortedLeft(gap_pos, seq_index)
                gap_lengths == IF seq_index < At(gap_pos, index)
                               THEN (IF index # 0 THEN At(cum_lengths, index - 1) ELSE 0)
                               ELSE At(cum_lengths, index)
            IN IntRes(seq_index + gap_lengths)

\* get_seq_index that does not collapse an index inside a gap run
GetSeqIndexNoCollapse(m, align_index_in) ==
    LET align_index == IF align_index_in < 0 THEN MapLen(m) + align_index_in
                       ELSE align_index_in
        cum_lengths == m.cum_gap_lengths
        gap_starts == GapStarts(m.gap_pos, cum_lengths)
        gap_ends == GapEnds(m.gap_pos, cum_lengths)
    IN IF align_index < 0 THEN Raise("IndexError")
       ELSE IF m.num_gaps = 0 \/ align_index < At(m.gap_pos, 0) THEN IntRes(align_index)
       ELSE IF align_index >= At(gap_ends, -1)
            THEN IntRes(align_index - At(cum_lengths, -1))
       ELSE LET index == SearchSortedLeft(gap_ends, align_index)
            IN IF align_index < At(gap_starts, index)
               THEN IntRes(align_index - At(cum_lengths, index - 1))
               ELSE IF align_index = At(gap_ends, index)
               THEN IntRes(align_index - At(cum_lengths, index))
               ELSE IF At(gap_starts, index) <= align_index
                       /\ align_index < At(gap_ends, index)
               THEN IntRes(align_index - (IF index # 0 THEN At(cum_lengths, index - 1) ELSE 0))
               ELSE NoneRes

\* IndelMap.get_seq_index
GetSeqIndex(m, align_index_in) ==
    LET align_index == IF align_index_in < 0 THEN MapLen(m) + align_index_in
                       ELSE align_index_in
        cum_lengths == m.cum_gap_lengths
        gap_starts == GapStarts(m.gap_pos, cum_lengths)
        gap_ends == GapEnds(m.gap_pos, cum_lengths)
    IN IF align_index < 0 THEN Raise("IndexError")
       ELSE IF m.num_gaps = 0 \/ align_index < At(m.gap_pos, 0) THEN IntRes(align_index)
       ELSE IF align_index >= At(gap_ends, -1)
            THEN IntRes(align_index - At(cum_lengths, -1))
       ELSE LET index == SearchSortedLeft(gap_ends, align_index)
            IN IF align_index < At(gap_starts, index)
               THEN IntRes(align_index - At(cum_lengths, index - 1))
               ELSE IF align_index = At(gap_ends, index)
               THEN IntRes(align_index - At(cum_lengths, index))
               ELSE IF At(gap_starts, index) <= align_index
                       /\ align_index < At(gap_ends, index)
               THEN IntRes(At(m.gap_pos, index))
               ELSE NoneRes

\* slice that keeps the whole of a gap run straddling stop
SliceGappedNoEndTrim(m, start, stop) ==
    LET gap_starts == GapStarts(m.gap_pos, m.cum_gap_lengths)
        gap_ends == GapEnds(m.gap_pos, m.cum_gap_lengths)
        gap_pos == m.gap_pos
        cum_lengths == m.cum_gap_lengths
        l == SearchSortedLeft(gap_ends, start)
    IN IF At(gap_starts, l) <= start /\ start < At(gap_ends, l) /\ stop <= At(gap_ends, l)
       THEN \* entire span is within a single gap
            PostInit(<<0>>, Some(<<stop - start>>), None, FALSE, 0)
       ELSE
       LET lengths0 == GetGapLengths(m)
           first_gap == At(gap_pos, 0)
           in_gap == At(gap_starts, l) <= start /\ start < At(gap_ends, l)
           at_end == start = At(gap_ends, l)
           begin == IF start < first_gap THEN 0
                    ELSE IF in_gap THEN l
                    ELSE IF at_end THEN l + 1
                    ELSE l
           begin_diff == start - At(gap_starts, l)
           lengths1 == IF start >= first_gap /\ in_gap
                       THEN [lengths0 EXCEPT ![l + 1] = @ - begin_diff]
                       ELSE lengths0
           shift == IF start < first_gap THEN start
                    ELSE IF in_gap
                         THEN (IF l # 0 THEN start - At(cum_lengths, l - 1) - begin_diff
                               ELSE At(gap_pos, 0))
                    ELSE IF at_end THEN start - At(cum_lengths, l)
                    ELSE (IF l # 0 THEN start - At(cum_lengths, l - 1) ELSE start)
           r == SearchSortedRight(PySlice(gap_ends, l, Len(gap_ends)), stop) + l
           stop_in_gap == r # m.num_gaps /\ At(gap_starts, r) < stop /\ stop <= At(gap_ends, r)
           end == IF r = m.num_gaps THEN r ELSE IF stop_in_gap THEN r + 1 ELSE r
           end_diff == At(gap_ends, r) - stop
           lengths2 == lengths1
           sliced_pos == PySlice(gap_pos, begin, end)
           pos_result == [i \in 1..Len(sliced_pos) |-> sliced_pos[i] - shift]
           lengths == PySlice(lengths2, begin, end)
           seq_stop == GetSeqIndex(m, stop)
           seq_start == GetSeqIndex(m, start)
       IN IF seq_stop.kind = "raise" THEN seq_stop
          ELSE IF seq_start.kind = "raise" THEN seq_start
          ELSE IF seq_stop.kind # "int" \/ seq_start.kind # "int" THEN Raise("TypeError")
          ELSE PostInit(pos_result, None, Some(lengths), FALSE,
                        seq_stop.val - seq_start.val)

\* IndelMap.__getitem__(slice), after the bounds are normalised:
\* 0 <= start < stop and the map has gaps that the slice may touch
SliceGapped(m, start, stop) ==
    LET gap_starts == GapStarts(m.gap_pos, m.cum_gap_lengths)
        gap_ends == GapEnds(m.gap_pos, m.cum_gap_lengths)
        gap_pos == m.gap_pos
        cum_lengths == m.cum_gap_lengths
        l == SearchSortedLeft(gap_ends, start)
    IN IF At(gap_starts, l) <= start /\ start < At(gap_ends, l) /\ stop <= At(gap_ends, l)
       THEN \* entire span is within a single gap
            PostInit(<<0>>, Some(<<stop - start>>), None, FALSE, 0)
       ELSE
       LET lengths0 == GetGapLengths(m)
           first_gap == At(gap_pos, 0)
           in_gap == At(gap_starts, l) <= start /\ start < At(gap_ends, l)
           at_end == start = At(gap_ends, l)
           begin == IF start < first_gap THEN 0
                    ELSE IF in_gap THEN l
                    ELSE IF at_end THEN l + 1
                    ELSE l
           begin_diff == start - At(gap_starts, l)
           lengths1 == IF start >= first_gap /\ in_gap
                       THEN [lengths0 EXCEPT ![l + 1] = @ - begin_diff]
                       ELSE lengths0
           shift == IF start < first_gap THEN start
                    ELSE IF in_gap
                         THEN (IF l # 0 THEN start - At(cum_lengths, l - 1) - begin_diff
                               ELSE At(gap_pos, 0))
                    ELSE IF at_end THEN start - At(cum_lengths, l)
                    ELSE (IF l # 0 THEN start - At(cum_lengths, l - 1) ELSE start)
           r == SearchSortedRight(PySlice(gap_ends, l, Len(gap_ends)), stop) + l
           stop_in_gap == r # m.num_gaps /\ At(gap_starts, r) < stop /\ stop <= At(gap_ends, r)
           end == IF r = m.num_gaps THEN r ELSE IF stop_in_gap THEN r + 1 ELSE r
           end_diff == At(gap_ends, r) - stop
           lengths2 == IF stop_in_gap THEN [lengths1 EXCEPT ![r + 1] = @ - end_diff]
                       ELSE lengths1
           sliced_pos == PySlice(gap_pos, begin, end)
           pos_result == [i \in 1..Len(sliced_pos) |-> sliced_pos[i] - shift]
           lengths == PySlice(lengths2, begin, end)
           seq_stop == GetSeqIndex(m, stop)
           seq_start == GetSeqIndex(m, start)
       IN IF seq_stop.kind = "raise" THEN seq_stop
          ELSE IF seq_start.kind = "raise" THEN seq_start
          ELSE IF seq_stop.kind # "int" \/ seq_start.kind # "int" THEN Raise("TypeError")
          ELSE PostInit(pos_result, None, Some(lengths), FALSE,
                        seq_stop.val - seq_start.val)

\* IndelMap.__getitem__(slice): item is slice(start, stop, step), each
\* component None or an integer
SliceMap(m, item) ==
    IF ~IsNone(item.step) THEN Raise("NotImplementedError")
    ELSE
    LET start0 == IF IsNone(item.start) \/ Get(item.start) = 0 THEN 0 ELSE Get(item.start)
        stop0 == IF ~IsNone(item.stop) THEN Get(item.stop) ELSE MapLen(m)
        start == IF start0 >= 0 THEN start0 ELSE MapLen(m) + start0
        stop == IF stop0 >= 0 THEN stop0 ELSE MapLen(m) + stop0
        no_gaps == PostInit(<<>>, Some(<<>>), None, FALSE, stop - start)
    IN IF start < 0 \/ stop < 0 THEN Raise("IndexError")
       ELSE IF start >= stop THEN PostInit(<<>>, Some(<<>>), None, FALSE, 0)
       ELSE IF m.num_gaps = 0 THEN no_gaps
       ELSE IF stop < At(m.gap_pos, 0)
               \/ start >= At(m.gap_pos, -1) + At(m.cum_gap_lengths, -1)
            THEN no_gaps
       ELSE SliceGapped(m, start, stop)

\* IndelMap.__add__
Add(m, other) ==
    LET gap_pos == m.gap_pos \o [i \in 1..Len(other.gap_pos) |->
                                    m.parent_length + other.gap_pos[i]]
        cum_length == IF m.num_gaps # 0 THEN At(m.cum_gap_lengths, -1) ELSE 0
        cum_gap_lengths == m.cum_gap_lengths \o
                           [i \in 1..Len(other.cum_gap_lengths) |->
                               cum_length + other.cum_gap_lengths[i]]
    IN PostInit(gap_pos, Some(cum_gap_lengths), None, FALSE,
                m.parent_length + other.parent_length)

\* IndelMap.__mul__
Mul(m, scale) ==
    PostInit([i \in 1..Len(m.gap_pos) |-> m.gap_pos[i] * scale],
             Some([i \in 1..Len(m.cum_gap_lengths) |-> m.cum_gap_lengths[i] * scale]),
             None, FALSE, m.parent_length * scale)

\* _update_lengths assigning instead of adding
UpdateLengthsAssign(result_pos, result_lengths, gap_pos, gap_lengths) ==
    [i \in 1..Len(result_pos) |->
        IF \E j \in 1..Len(gap_pos) : gap_pos[j] = result_pos[i]
        THEN gap_lengths[CHOOSE j \in 1..Len(gap_pos) : gap_pos[j] = result_pos[i]]
        ELSE result_lengths[i]]

\* _update_lengths: result_lengths with gap_lengths added where the
\* elements of gap_pos occur in result_pos (both without duplicates)
UpdateLengths(result_pos, result_lengths, gap_pos, gap_lengths) ==
    [i \in 1..Len(result_pos) |->
        IF \E j \in 1..Len(gap_pos) : gap_pos[j] = result_pos[i]
        THEN result_lengths[i]
             + gap_lengths[CHOOSE j \in 1..Len(gap_pos) : gap_pos[j] = result_pos[i]]
        ELSE result_lengths[i]]

\* IndelMap.merge_maps; parent_length is None or an integer
MergeMaps(m, other, parent_length) ==
    LET unique_pos == SortedSeq({m.gap_pos[i] : i \in 1..Len(m.gap_pos)}
                                \cup {other.gap_pos[i] : i \in 1..Len(other.gap_pos)})
        zeros == [i \in 1..Len(unique_pos) |-> 0]
        self_lengths == GetGapLengths(m)
        other_lengths == GetGapLengths(other)
        lengths1 == UpdateLengths(unique_pos, zeros, m.gap_pos, self_lengths)
        lengths2 == UpdateLengths(unique_pos, lengths1, other.gap_pos, other_lengths)
        plen == IF IsNone(parent_length) \/ Get(parent_length) = 0
                THEN m.parent_length ELSE Get(parent_length)
    IN PostInit(unique_pos, None, Some(lengths2), FALSE, plen)

\* IndelMap.nucleic_reversed
NucleicReversed(m) ==
    LET n == Len(m.gap_pos)
        lengths == GetGapLengths(m)
        new_pos == [i \in 1..n |-> m.parent_length - m.gap_pos[n + 1 - i]]
        new_lengths == [i \in 1..n |-> lengths[n + 1 - i]]
    IN PostInit(new_pos, None, Some(new_lengths), FALSE, m.parent_length)

\* IndelMap.with_termini_unknown
WithTerminiUnknown(m) ==
    PostInit(m.gap_pos, Some(m.cum_gap_lengths), None, TRUE, m.parent_length)

\* sorted(coords) for a list of (start, end) pairs
PairLeq(p, q) == p[1] < q[1] \/ (p[1] = q[1] /\ p[2] <= q[2])

RECURSIVE SortCoords(_)
SortCoords(coords) ==
    IF Len(coords) <= 1 THEN coords
    ELSE LET k == CHOOSE i \in 1..Len(coords) :
                      /\ \A j \in 1..Len(coords) : PairLeq(coords[i], coords[j])
                      /\ \A j \in 1..(i - 1) : coords[j] # coords[i]
             rest == [j \in 1..(Len(coords) - 1) |->
                         IF j < k THEN coords[j] ELSE coords[j + 1]]
         IN <<coords[k]>> \o SortCoords(rest)

\* python dict as a function: d[k] = v
EmptyDict == [x \in {} |-> 0]
DictPut(d, k, v) == [x \in (DOMAIN d) \cup {k} |-> IF x = k THEN v ELSE d[x]]
DictGet(d, k, default) == IF k \in DOMAIN d THEN d[k] ELSE default

\* as JoinGaps, but a new insertion point starts from 0 instead of from
\* the gap length joined so far
RECURSIVE JoinGapsNoCum(_, _, _, _, _)
JoinGapsNoCum(gaps, im, i, cum_length, cum_parent_length) ==
    IF i >= im.num_gaps THEN gaps
    ELSE LET pos == At(im.gap_pos, i) + cum_parent_length
             new == DictGet(gaps, pos, 0) + At(im.cum_gap_lengths, i)
         IN JoinGapsNoCum(DictPut(gaps, pos, new), im, i + 1, cum_length, cum_parent_length)

\* joined_segments, inner loop: for i in range(im.num_gaps)
RECURSIVE JoinGaps(_, _, _, _, _)
JoinGaps(gaps, im, i, cum_length, cum_parent_length) ==
    IF i >= im.num_gaps THEN gaps
    ELSE LET pos == At(im.gap_pos, i) + cum_parent_length
             new == DictGet(gaps, pos, cum_length) + At(im.cum_gap_lengths, i)
         IN JoinGaps(DictPut(gaps, pos, new), im, i + 1, cum_length, cum_parent_length)

\* joined_segments, outer loop: for start, end in coords
RECURSIVE JoinLoop(_, _, _, _)
JoinLoop(m, coords, k, st) ==
    IF k > Len(coords) \/ st.failed.kind = "raise" THEN st
    ELSE LET r == SliceMap(m, [start |-> Some(coords[k][1]),
                               stop |-> Some(coords[k][2]), step |-> None])
         IN IF r.kind = "raise" THEN [st EXCEPT !.failed = r]
            ELSE LET im == r.val
                 IN JoinLoop(m, coords, k + 1,
                        [gaps |-> JoinGaps(st.gaps, im, 0, st.cum_length,
                                           st.cum_parent_length),
                         cum_length |-> IF im.num_gaps # 0
                                        THEN st.cum_length + At(im.cum_gap_lengths, -1)
                                        ELSE st.cum_length,
                         cum_parent_length |-> st.cum_parent_length + im.parent_length,
                         failed |-> st.failed])

\* IndelMap.joined_segments
JoinedSegments(m, coords) ==
    LET st == JoinLoop(m, SortCoords(coords), 1,
                       [gaps |-> EmptyDict, cum_length |-> 0,
                        cum_parent_length |-> 0, failed |-> NoneRes])
        gap_pos == SortedSeq(DOMAIN st.gaps)
        cum_lengths == [i \in 1..Len(gap_pos) |-> st.gaps[gap_pos[i]]]
    IN IF st.failed.kind = "raise" THEN st.failed
       ELSE PostInit(gap_pos, Some(cum_lengths), None, FALSE, st.cum_parent_length)

TypeName == "cogent3.core.location.IndelMap"

\* to_rich_dict that does not refresh cum_gap_lengths from the instance
ToRichDictStale(m) ==
    [type |-> TypeName,
     version |-> "version",
     termini_unknown |-> m.serialisable.termini_unknown,
     gap_pos |-> m.gap_pos,
     cum_gap_lengths |-> m.serialisable.cum_gap_lengths,
     parent_length |-> m.parent_length]

\* IndelMap.to_rich_dict
ToRichDict(m) ==
    [type |-> TypeName,
     version |-> "version",
     termini_unknown |-> m.serialisable.termini_unknown,
     gap_pos |-> m.gap_pos,
     cum_gap_lengths |-> Some(m.cum_gap_lengths),
     parent_length |-> m.parent_length]

\* IndelMap.from_rich_dict
FromRichDict(map_element) ==
    IF map_element.type # TypeName THEN Raise("AssertionError")
    ELSE IF IsNone(map_element.cum_gap_lengths) THEN Raise("TypeError")
    ELSE PostInit(map_element.gap_pos, map_element.cum_gap_lengths, None,
                  map_element.termini_unknown, map_element.parent_length)

\* ------------------------------------------------------------- inputs
\* the data model of the class: strictly ascending insertion points within
\* [0, parent_length], strictly increasing positive cumulative lengths
DataModel(m) ==
    /\ Len(m.gap_pos) = Len(m.cum_gap_lengths)
    /\ m.num_gaps = Len(m.gap_pos)
    /\ m.parent_length >= 0
    /\ \A i \in 1..Len(m.gap_pos) : 0 <= m.gap_pos[i] /\ m.gap_pos[i] <= m.parent_length
    /\ \A i \in 1..(Len(m.gap_pos) - 1) : m.gap_pos[i] < m.gap_pos[i + 1]
    /\ \A i \in 1..Len(m.cum_gap_lengths) :
          IF i = 1 THEN m.cum_gap_lengths[1] > 0
          ELSE m.cum_gap_lengths[i - 1] < m.cum_gap_lengths[i]

\* dictionaries {insertion point: gap length} over a sequence of length n
GapDicts(n) ==
    UNION {[S -> 1..MaxGapLen] : S \in {T \in SUBSET (0..n) : Cardinality(T) <= MaxGaps}}

\* maps built by gap_coords_to_map (from gap lengths)
DictMaps == UNION {{GapCoordsToMap(g, n).val : g \in GapDicts(n)} : n \in 0..MaxLen}

\* the same maps built directly from cumulative lengths
DirectMaps ==
    {PostInit(m.gap_pos, Some(m.cum_gap_lengths), None, FALSE, m.parent_length).val :
        m \in DictMaps}

\* the maps of the worked examples
Example1 == GapCoordsToMap((2 :> 1) @@ (5 :> 2), 10).val
Example2 == PostInit(<<0, 4>>, Some(<<2, 5>>), None, FALSE, 4).val
Example5a == GapCoordsToMap((5 :> 1) @@ (6 :> 3), 10).val
Example5b == GapCoordsToMap((2 :> 1) @@ (5 :> 3), 10).val
ExampleMaps == {Example1, Example2, Example5a, Example5b}

FirstMaps == DictMaps \cup DirectMaps \cup ExampleMaps

\* right operands of +
AddOperands == {m \in DirectMaps : m.parent_length <= MaxOtherLen}

\* right operands of merge_maps: maps for the same sequence
MergeOperands(m) ==
    {o \in DirectMaps \cup ExampleMaps : o.parent_length = m.parent_length}

\* a result that the program goes on to use as an operand
InBounds(m) ==
    /\ m.parent_length <= MaxLen
    /\ m.num_gaps <= MaxGaps
    /\ \A i \in 1..Len(m.cum_gap_lengths) : GetGapLengths(m)[i] <= MaxGapLen

OptInts(lo, hi) == {None} \cup {Some(i) : i \in lo..hi}

SliceItems(m) ==
    {[start |-> b, stop |-> e, step |-> None] :
        b \in OptInts(-1, MapLen(m) + 1), e \in OptInts(-1, MapLen(m) + 1)}
    \cup {[start |-> None, stop |-> None, step |-> Some(2)]}

Ranges(m) == {<<b, e>> : b \in 0..MapLen(m), e \in 0..MapLen(m)}

CoordLists(m) ==
    UNION {[1..n -> {c \in Ranges(m) : c[1] <= c[2]}] : n \in 1..MaxSegs}

\* ------------------------------------------------------ state machine
VARIABLES
    a,      \* the map (or the class) the next call is made on
    op,     \* the last call: its name and arguments
    res     \* what the last call returned or raised

vars == <<a, op, res>>

\* no call is in progress: the next call can be made on a
Idle == op.name = "new"

Init ==
    /\ a \in FirstMaps
    /\ op = [name |-> "new"]
    /\ res = NoneRes

\* a[start:stop:step]
DoSlice ==
    /\ Idle
    /\ \E item \in SliceItems(a) :
        /\ op' = [name |-> "getitem", item |-> item]
        /\ res' = SliceMap(a, item)
        /\ UNCHANGED a

\* a.get_align_index(seq_index, slice_stop)
DoGetAlignIndex ==
    /\ Idle
    /\ \E s \in (-(a.parent_length + 1))..(a.parent_length + 1), slice_stop \in BOOLEAN :
        /\ op' = [name |-> "get_align_index", seq_index |-> s, slice_stop |-> slice_stop]
        /\ res' = GetAlignIndex(a, s, slice_stop)
        /\ UNCHANGED a

\* a.get_seq_index(align_index)
DoGetSeqIndex ==
    /\ Idle
    /\ \E x \in (-(MapLen(a) + 1))..(MapLen(a) + 1) :
        /\ op' = [name |-> "get_seq_index", align_index |-> x]
        /\ res' = GetSeqIndex(a, x)
        /\ UNCHANGED a

\* a + other
DoAdd ==
    /\ Idle
    /\ \E other \in AddOperands :
        /\ op' = [name |-> "add", other |-> other]
        /\ res' = Add(a, other)
        /\ UNCHANGED a

\* a * scale
DoMul ==
    /\ Idle
    /\ \E scale \in 1..MaxScale :
        /\ op' = [name |-> "mul", scale |-> scale]
        /\ res' = Mul(a, scale)
        /\ UNCHANGED a

\* a.merge_maps(other, parent_length)
DoMergeMaps ==
    /\ Idle
    /\ \E other \in MergeOperands(a), parent_length \in {None, Some(a.parent_length + 1)} :
        /\ op' = [name |-> "merge_maps", other |-> other, parent_length |-> parent_length]
        /\ res' = MergeMaps(a, other, parent_length)
        /\ UNCHANGED a

\* a.joined_segments(coords)
DoJoinedSegments ==
    /\ Idle
    /\ MapLen(a) <= MaxJoinLen
    /\ \E coords \in CoordLists(a) :
        /\ op' = [name |-> "joined_segments", coords |-> coords]
        /\ res' = JoinedSegments(a, coords)
        /\ UNCHANGED a

\* a.nucleic_reversed()
DoNucleicReversed ==
    /\ Idle
    /\ op' = [name |-> "nucleic_reversed"]
    /\ res' = NucleicReversed(a)
    /\ UNCHANGED a

\* a.with_termini_unknown()
DoWithTerminiUnknown ==
    /\ Idle
    /\ op' = [name |-> "with_termini_unknown"]
    /\ res' = WithTerminiUnknown(a)
    /\ UNCHANGED a

\* a.to_rich_dict()
DoToRichDict ==
    /\ Idle
    /\ op' = [name |-> "to_rich_dict"]
    /\ res' = DictRes(ToRichDict(a))
    /\ UNCHANGED a

\* a.get_gap_coordinates()
DoGetGapCoordinates ==
    /\ Idle
    /\ op' = [name |-> "get_gap_coordinates"]
    /\ res' = GetGapCoordinates(a)
    /\ UNCHANGED a

\* IndelMap.from_rich_dict(d) on the dictionary just produced
DoFromRichDict ==
    /\ res.kind = "dict"
    /\ op' = [name |-> "from_rich_dict"]
    /\ res' = FromRichDict(res.val)
    /\ UNCHANGED a

\* the caller goes on with the map a call returned
Keep ==
    /\ res.kind = "map"
    /\ DataModel(res.val)
    /\ InBounds(res.val)
    /\ a' = res.val
    /\ op' = [name |-> "new"]
    /\ res' = NoneRes

\* the caller drops the result of the last call
Discard ==
    /\ ~Idle
    /\ op' = [name |-> "new"]
    /\ res' = NoneRes
    /\ UNCHANGED a

Next ==
    \/ DoSlice
    \/ DoGetAlignIndex
    \/ DoGetSeqIndex
    \/ DoAdd
    \/ DoMul
    \/ DoMergeMaps
    \/ DoJoinedSegments
    \/ DoNucleicReversed
    \/ DoWithTerminiUnknown
    \/ DoToRichDict
    \/ DoGetGapCoordinates
    \/ DoFromRichDict
    \/ Keep
    \/ Discard

Spec == Init /\ [][Next]_vars

\* ------------------------------------------------- Span and LostSpan
\* Span.__init__ / Span._new_init: end is None or an integer
SpanNew(start, end, tidy_start, tidy_end, value, reverse) ==
    LET e0 == IF IsNone(end) THEN start + 1 ELSE Get(end)
        swap == ~IsNone(end) /\ start > e0
        lo == IF swap THEN e0 ELSE start
        hi == IF swap THEN start ELSE e0
    IN [lost |-> FALSE,
        start |-> lo,
        end |-> hi,
        reverse |-> reverse,
        tidy_start |-> tidy_start,
        tidy_end |-> tidy_end,
        value |-> value,
        length |-> hi - lo,
        serialisable |-> [start |-> start, end |-> end, tidy_start |-> tidy_start,
                          tidy_end |-> tidy_end, value |-> value, reverse |-> reverse]]

\* Span(start, end)
Span2(start, end) == SpanNew(start, Some(end), FALSE, FALSE, None, FALSE)

\* LostSpan(length, value) / _LostSpan.__init__
LostSpanNew(length, value) ==
    [lost |-> TRUE,
     terminal |-> FALSE,
     length |-> length,
     value |-> value,
     serialisable |-> [length |-> length, value |-> value]]

\* ---------------------------------------------------------- FeatureMap
Min2(x, y) == IF x <= y THEN x ELSE y
Max2(x, y) == IF x >= y THEN x ELSE y

\* FeatureMap.__post_init__, the loop over the spans
RECURSIVE FeatureScan(_, _, _)
FeatureScan(spans, i, st) ==
    IF i > Len(spans) THEN st
    ELSE LET span == spans[i]
             st1 == [st EXCEPT !.offsets = Append(@, st.posn),
                               !.posn = @ + span.length]
         IN FeatureScan(spans, i + 1,
                IF span.lost THEN [st1 EXCEPT !.complete = FALSE]
                ELSE IF ~st.useful
                THEN [st1 EXCEPT !.useful = TRUE,
                                 !.start_ = Some(span.start),
                                 !.end_ = Some(span.end)]
                ELSE [st1 EXCEPT !.start_ = Some(Min2(Get(st.start_), span.start)),
                                 !.end_ = Some(Max2(Get(st.end_), span.end))])

\* FeatureMap(spans, parent_length)
FeatureMapNew(spans, parent_length) ==
    LET st == FeatureScan(spans, 1,
                  [offsets |-> <<>>, posn |-> 0, useful |-> FALSE, complete |-> TRUE,
                   start_ |-> None, end_ |-> None])
    IN [spans |-> spans,
        parent_length |-> parent_length,
        offsets |-> st.offsets,
        useful |-> st.useful,
        complete |-> st.complete,
        start_ |-> st.start_,
        end_ |-> st.end_,
        length |-> st.posn]

\* FeatureMap.start
FeatureStart(m) == IF IsNone(m.start_) \/ Get(m.start_) = 0 THEN 0 ELSE Get(m.start_)

\* FeatureMap.__len__
FeatureLen(m) == m.length

SpansRes(spans) == [kind |-> "spans", val |-> spans]

\* as LocationsLoop, but a location that starts at parent_length is also
\* taken to lie outside the sequence
RECURSIVE LocationsLoopStrict(_, _, _, _)
LocationsLoopStrict(locations, i, parent_length, spans) ==
    IF i > Len(locations) THEN SpansRes(spans)
    ELSE LET start == locations[i][1]
             end == locations[i][2]
         IN IF start > end \/ Min2(start, end) < 0 THEN Raise("ValueError")
            ELSE IF start >= parent_length THEN Raise("RuntimeError")
            ELSE IF end > parent_length
            THEN LocationsLoopStrict(locations, i + 1, parent_length,
                     spans \o <<Span2(start, parent_length),
                                LostSpanNew(end - parent_length, None)>>)
            ELSE LocationsLoopStrict(locations, i + 1, parent_length,
                                     Append(spans, Span2(start, end)))

\* _spans_from_locations, the loop over the (start, end) pairs
RECURSIVE LocationsLoop(_, _, _, _)
LocationsLoop(locations, i, parent_length, spans) ==
    IF i > Len(locations) THEN SpansRes(spans)
    ELSE LET start == locations[i][1]
             end == locations[i][2]
         IN IF start > end \/ Min2(start, end) < 0 THEN Raise("ValueError")
            ELSE IF start > parent_length THEN Raise("RuntimeError")
            ELSE IF end > parent_length
            THEN LET diff == end - parent_length
                     clipped == Min2(end, parent_length)
                 IN LocationsLoop(locations, i + 1, parent_length,
                        spans \o <<Span2(start, clipped),
                                   LostSpanNew(IF diff < 0 THEN -diff ELSE diff, None)>>)
            ELSE LocationsLoop(locations, i + 1, parent_length,
                               Append(spans, Span2(start, end)))

\* _spans_from_locations
SpansFromLocations(locations, parent_length) ==
    IF Len(locations) = 0 THEN SpansRes(<<>>)
    ELSE IF locations[1][1] > locations[Len(locations)][2] THEN Raise("ValueError")
    ELSE LocationsLoop(locations, 1, parent_length, <<>>)

\* as GapCoordsLoop, but recording the length of each run instead of the
\* running total
RECURSIVE GapCoordsLoopNoCum(_, _, _)
GapCoordsLoopNoCum(indel_spans, i, st) ==
    IF i >= Len(indel_spans) \/ st.failed THEN st
    ELSE LET span == At(indel_spans, i)
         IN IF ~span.lost THEN GapCoordsLoopNoCum(indel_spans, i + 1, st)
            ELSE IF i # 0 /\ At(indel_spans, i - 1).lost
            THEN [st EXCEPT !.failed = TRUE]
            ELSE GapCoordsLoopNoCum(indel_spans, i + 1,
                     [gap_pos |-> Append(st.gap_pos,
                                         IF i # 0 THEN At(indel_spans, i - 1).end ELSE 0),
                      cum_lengths |-> Append(st.cum_lengths, span.length),
                      cum_length |-> st.cum_length + span.length,
                      failed |-> FALSE])

\* spans_to_gap_coords, the loop over the spans
RECURSIVE GapCoordsLoop(_, _, _)
GapCoordsLoop(indel_spans, i, st) ==
    IF i >= Len(indel_spans) \/ st.failed THEN st
    ELSE LET span == At(indel_spans, i)
         IN IF ~span.lost THEN GapCoordsLoop(indel_spans, i + 1, st)
            ELSE IF i # 0 /\ At(indel_spans, i - 1).lost
            THEN [st EXCEPT !.failed = TRUE]
            ELSE LET pos == IF i # 0 THEN At(indel_spans, i - 1).end ELSE 0
                     cum_length == st.cum_length + span.length
                 IN GapCoordsLoop(indel_spans, i + 1,
                        [gap_pos |-> Append(st.gap_pos, pos),
                         cum_lengths |-> Append(st.cum_lengths, cum_length),
                         cum_length |-> cum_length,
                         failed |-> FALSE])

\* spans_to_gap_coords
SpansToGapCoords(indel_spans) ==
    GapCoordsLoop(indel_spans, 0,
        [gap_pos |-> <<>>, cum_lengths |-> <<>>, cum_length |-> 0, failed |-> FALSE])

\* IndelMap.from_spans / FeatureMap.from_spans
FromSpans(cls, spans, parent_length) ==
    IF cls = "FeatureMap" THEN MapRes(FeatureMapNew(spans, parent_length))
    ELSE LET coords == SpansToGapCoords(spans)
         IN IF coords.failed THEN Raise("AttributeError")
            ELSE PostInit(coords.gap_pos, Some(coords.cum_lengths), None, FALSE,
                          parent_length)

\* as FromLocations, but every location is taken one position too long
FromLocationsPastEnd(cls, locations, parent_length) ==
    LET longer == [i \in 1..Len(locations) |-> <<locations[i][1], locations[i][2] + 1>>]
        spans == IF Len(locations) # 0 THEN SpansFromLocations(longer, parent_length)
                 ELSE SpansRes(<<>>)
    IN IF spans.kind = "raise" THEN spans
       ELSE FromSpans(cls, spans.val, parent_length)

\* MapABC.from_locations
FromLocations(cls, locations, parent_length) ==
    LET spans == IF Len(locations) # 0 THEN SpansFromLocations(locations, parent_length)
                 ELSE SpansRes(<<>>)
    IN IF spans.kind = "raise" THEN spans
       ELSE FromSpans(cls, spans.val, parent_length)

\* as CoveredDelta, but an end position overwrites its count instead of
\* adding to it
RECURSIVE CoveredDeltaAssign(_, _, _)
CoveredDeltaAssign(spans, i, delta) ==
    IF i > Len(spans) THEN delta
    ELSE LET span == spans[i]
         IN IF span.lost THEN CoveredDeltaAssign(spans, i + 1, delta)
            ELSE LET d1 == DictPut(delta, span.start, DictGet(delta, span.start, 0) + 1)
                     d2 == DictPut(d1, span.end, -1)
                 IN CoveredDeltaAssign(spans, i + 1, d2)

\* FeatureMap.covered, the loop that fills delta
RECURSIVE CoveredDelta(_, _, _)
CoveredDelta(spans, i, delta) ==
    IF i > Len(spans) THEN delta
    ELSE LET span == spans[i]
         IN IF span.lost THEN CoveredDelta(spans, i + 1, delta)
            ELSE LET d1 == DictPut(delta, span.start, DictGet(delta, span.start, 0) + 1)
                     d2 == DictPut(d1, span.end, DictGet(d1, span.end, 0) - 1)
                 IN CoveredDelta(spans, i + 1, d2)

\* FeatureMap.covered, the sweep over the sorted positions
RECURSIVE CoveredSweep(_, _, _, _)
CoveredSweep(positions, i, delta, st) ==
    IF i > Len(positions) \/ st.failed THEN st
    ELSE LET x == positions[i]
             y == st.y + delta[x]
         IN IF st.last_x = Some(x)
            THEN CoveredSweep(positions, i + 1, delta, [st EXCEPT !.y = y])
            ELSE IF y # 0 /\ st.last_y = 0
            THEN IF ~IsNone(st.start) THEN [st EXCEPT !.failed = TRUE]
                 ELSE CoveredSweep(positions, i + 1, delta,
                          [st EXCEPT !.y = y, !.last_y = y, !.last_x = Some(x),
                                     !.start = Some(x)])
            ELSE IF st.last_y # 0 /\ y = 0
            THEN IF IsNone(st.start) THEN [st EXCEPT !.failed = TRUE]
                 ELSE CoveredSweep(positions, i + 1, delta,
                          [st EXCEPT !.y = y, !.last_y = y, !.last_x = Some(x),
                                     !.start = None,
                                     !.result = Append(@, <<Get(st.start), x>>)])
            ELSE CoveredSweep(positions, i + 1, delta,
                     [st EXCEPT !.y = y, !.last_y = y, !.last_x = Some(x)])

\* FeatureMap.covered
Covered(m) ==
    LET delta == CoveredDelta(m.spans, 1, EmptyDict)
        positions == SortedSeq(DOMAIN delta)
        st == CoveredSweep(positions, 1, delta,
                  [y |-> 0, last_y |-> 0, last_x |-> None, start |-> None,
                   result |-> <<>>, failed |-> FALSE])
    IN IF st.failed \/ st.y # 0 THEN Raise("AssertionError")
       ELSE FromLocations("FeatureMap", st.result, m.parent_length)

\* FeatureMap.inverse, the loop that fills temp
RECURSIVE InverseTemp(_, _, _, _)
InverseTemp(spans, i, cum_posn, temp) ==
    IF i > Len(spans) THEN temp
    ELSE LET span == spans[i]
             next == cum_posn + span.length
         IN IF span.lost THEN InverseTemp(spans, i + 1, next, temp)
            ELSE IF span.reverse
            THEN InverseTemp(spans, i + 1, next,
                     Append(temp, <<span.start, span.end, next, cum_posn>>))
            ELSE InverseTemp(spans, i + 1, next,
                     Append(temp, <<span.start, span.end, cum_posn, next>>))

\* tuple comparison used by temp.sort()
RECURSIVE TupleLeqFrom(_, _, _)
TupleLeqFrom(s, t, i) ==
    IF i > Len(s) THEN TRUE
    ELSE IF s[i] < t[i] THEN TRUE
    ELSE IF s[i] > t[i] THEN FALSE
    ELSE TupleLeqFrom(s, t, i + 1)

TupleLeq(s, t) == TupleLeqFrom(s, t, 1)

\* temp.sort()
RECURSIVE SortTuples(_)
SortTuples(ts) ==
    IF Len(ts) = 0 THEN <<>>
    ELSE LET k == CHOOSE i \in 1..Len(ts) :
                      /\ \A j \in 1..Len(ts) : TupleLeq(ts[i], ts[j])
                      /\ \A j \in 1..(i - 1) : ts[j] # ts[i]
         IN <<ts[k]>> \o SortTuples(SubSeq(ts, 1, k - 1) \o SubSeq(ts, k + 1, Len(ts)))

\* as InverseLoop, but no LostSpan is put where the sorted spans leave a gap
RECURSIVE InverseLoopNoGap(_, _, _)
InverseLoopNoGap(temp, i, st) ==
    IF i > Len(temp) \/ st.failed THEN st
    ELSE LET span == SpanNew(temp[i][3], Some(temp[i][4]), FALSE, FALSE, None,
                             temp[i][3] > temp[i][4])
         IN IF temp[i][1] < st.last_start THEN [st EXCEPT !.failed = TRUE]
            ELSE InverseLoopNoGap(temp, i + 1,
                     [st EXCEPT !.new_spans = Append(@, span), !.last_start = temp[i][2]])

\* as InverseLoop, but a span that starts where the last one ended is
\* taken for an overlap
RECURSIVE InverseLoopStrict(_, _, _)
InverseLoopStrict(temp, i, st) ==
    IF i > Len(temp) \/ st.failed THEN st
    ELSE LET span == SpanNew(temp[i][3], Some(temp[i][4]), FALSE, FALSE, None,
                             temp[i][3] > temp[i][4])
         IN IF temp[i][1] > st.last_start
            THEN InverseLoopStrict(temp, i + 1,
                     [st EXCEPT !.new_spans = @ \o <<LostSpanNew(temp[i][1] - st.last_start, None), span>>,
                                !.last_start = temp[i][2]])
            ELSE [st EXCEPT !.failed = TRUE]

\* FeatureMap.inverse, the loop over the sorted temp
RECURSIVE InverseLoop(_, _, _)
InverseLoop(temp, i, st) ==
    IF i > Len(temp) \/ st.failed THEN st
    ELSE LET start == temp[i][1]
             end == temp[i][2]
             cum_start == temp[i][3]
             cum_end == temp[i][4]
             span == SpanNew(cum_start, Some(cum_end), FALSE, FALSE, None,
                             cum_start > cum_end)
         IN IF start > st.last_start
            THEN InverseLoop(temp, i + 1,
                     [st EXCEPT !.new_spans = @ \o <<LostSpanNew(start - st.last_start, None), span>>,
                                !.last_start = end])
            ELSE IF start < st.last_start THEN [st EXCEPT !.failed = TRUE]
            ELSE InverseLoop(temp, i + 1,
                     [st EXCEPT !.new_spans = Append(@, span), !.last_start = end])

\* FeatureMap.inverse
Inverse(m) ==
    LET temp == SortTuples(InverseTemp(m.spans, 1, 0, <<>>))
        st == InverseLoop(temp, 1, [new_spans |-> <<>>, last_start |-> 0, failed |-> FALSE])
        new_spans == IF m.parent_length > st.last_start
                     THEN Append(st.new_spans,
                                 LostSpanNew(m.parent_length - st.last_start, None))
                     ELSE st.new_spans
    IN IF st.failed THEN Raise("ValueError")
       ELSE MapRes(FeatureMapNew(new_spans, FeatureLen(m)))

\* Span.__contains__ for a number
SpanContains(span, x) == x >= span.start /\ x < span.end

\* Span.overlaps for another Span
SpanOverlaps(span, other) == SpanContains(other, span.start) \/ SpanContains(span, other.start)

\* FeatureMap.absolute_position
AbsolutePosition(m, rel_pos) ==
    IF rel_pos < 0 THEN Raise("ValueError")
    ELSE IF FeatureLen(m) = m.parent_length THEN IntRes(rel_pos)
    ELSE IntRes(FeatureStart(m) + rel_pos)

\* FeatureMap.relative_position
RelativePosition(m, abs_pos) ==
    IF abs_pos < 0 THEN Raise("ValueError")
    ELSE IntRes(abs_pos - FeatureStart(m))

\* --------------------------------------- IndelMap as explicit spans
\* TerminalPadding(length)
TerminalPaddingNew(length) == [LostSpanNew(length, None) EXCEPT !.terminal = TRUE]

\* IndelMap.spans, the loop over gap_pos
RECURSIVE IndelSpansLoop(_, _, _)
IndelSpansLoop(m, i, out) ==
    IF i >= m.num_gaps THEN out
    ELSE LET pos == At(m.gap_pos, i)
             cum_length == At(m.cum_gap_lengths, i)
         IN IF pos = 0
            THEN IndelSpansLoop(m, i + 1,
                     Append(out, IF m.termini_unknown THEN TerminalPaddingNew(cum_length)
                                 ELSE LostSpanNew(cum_length, None)))
            ELSE LET start == IF i = 0 THEN 0 ELSE At(m.gap_pos, i - 1)
                     prev_length == IF i = 0 THEN 0 ELSE At(m.cum_gap_lengths, i - 1)
                     gap == IF m.termini_unknown /\ i = m.num_gaps - 1
                            THEN TerminalPaddingNew(cum_length - prev_length)
                            ELSE LostSpanNew(cum_length - prev_length, None)
                 IN IndelSpansLoop(m, i + 1, out \o <<Span2(start, pos), gap>>)

\* IndelMap.spans
IndelSpans(m) ==
    IF m.num_gaps = 0 THEN <<Span2(0, m.parent_length)>>
    ELSE LET out == IndelSpansLoop(m, 0, <<>>)
         IN IF At(m.gap_pos, -1) < m.parent_length
            THEN Append(out, Span2(At(m.gap_pos, -1), m.parent_length))
            ELSE out

\* IndelMap.to_feature_map
ToFeatureMap(m) == MapRes(FeatureMapNew(IndelSpans(m), m.parent_length))

\* list(zip(starts, ends))
Zip(starts, ends) ==
    [i \in 1..Min2(Len(starts), Len(ends)) |-> <<starts[i], ends[i]>>]

\* IndelMap.get_coordinates
GetCoordinates(m) ==
    IF m.num_gaps = 0 \/ (m.num_gaps = 1 /\ At(m.gap_pos, 0) = 0)
    THEN ListRes(<<<<0, m.parent_length>>>>)
    ELSE IF m.num_gaps = 1
    THEN ListRes(Zip(<<0, At(m.gap_pos, 0)>>, <<At(m.gap_pos, 0), m.parent_length>>))
    ELSE LET starts0 == SubSeq(m.gap_pos, 1, m.num_gaps - 1)
             ends0 == SubSeq(m.gap_pos, 2, m.num_gaps)
             lead == At(m.gap_pos, 0) # 0
             ends1 == IF lead THEN <<starts0[1]>> \o ends0 ELSE ends0
             starts1 == IF lead THEN <<0>> \o starts0 ELSE starts0
             tail == At(m.gap_pos, -1) + At(m.cum_gap_lengths, -1) < m.parent_length
             starts2 == IF tail THEN Append(starts1, At(ends1, -1)) ELSE starts1
             ends2 == IF tail THEN Append(ends1, m.parent_length) ELSE ends1
         IN ListRes(Zip(starts2, ends2))

\* numpy.array(locations).flatten()
RECURSIVE Flatten(_, _)
Flatten(locations, i) ==
    IF i > Len(locations) THEN <<>>
    ELSE <<locations[i][1], locations[i][2]>> \o Flatten(locations, i + 1)

\* IndelMap.from_aligned_segments
FromAlignedSegments(locations, aligned_length) ==
    IF Len(locations) = 0
       \/ (Len(locations) = 1 /\ locations[1][1] = 0 /\ locations[1][2] = aligned_length)
    THEN PostInit(<<>>, Some(<<>>), None, FALSE, aligned_length)
    ELSE LET loc1 == IF locations[1][1] # 0 THEN <<<<0, 0>>>> \o locations ELSE locations
             loc2 == IF At(loc1, -1)[2] < aligned_length
                     THEN Append(loc1, <<aligned_length, aligned_length>>)
                     ELSE loc1
             flat == Flatten(loc2, 1)
             inner == SubSeq(flat, 2, Len(flat) - 1)
             n == Len(inner) \div 2
             gap_starts == [i \in 1..n |-> inner[2 * i - 1]]
             gap_ends == [i \in 1..n |-> inner[2 * i]]
             gap_lengths == [i \in 1..n |-> gap_ends[i] - gap_starts[i]]
             cum_lens == CumSum(gap_lengths)
             gap_pos == [i \in 1..n |->
                            IF i = 1 THEN gap_starts[1] ELSE gap_starts[i] - cum_lens[i - 1]]
         IN IF n = 0 THEN Raise("IndexError")
            ELSE PostInit(gap_pos, Some(cum_lens), None, FALSE,
                          aligned_length - At(cum_lens, -1))

\* ------------------------------------------- FeatureMap state machine
\* spans a caller can hand to FeatureMap(spans, parent_length)
SpanChoices(n) ==
    {SpanNew(c[1], Some(c[2]), FALSE, FALSE, None, r) :
        c \in {c \in (0..(n + 1)) \X (0..(n + 1)) : c[1] <= c[2]}, r \in BOOLEAN}
    \cup {LostSpanNew(k, None) : k \in 1..MaxLost}

\* the map of the docstring of covered
CoveredExample == FeatureMapNew(<<Span2(10, 20), Span2(15, 25), Span2(80, 90)>>, 100)

InitF ==
    /\ \/ \E n \in 0..MaxFLen, k \in 0..MaxSpans :
            \E spans \in [1..k -> SpanChoices(n)] : a = FeatureMapNew(spans, n)
       \/ a = CoveredExample
    /\ op = [name |-> "new"]
    /\ res = NoneRes

\* a.covered()
DoCovered ==
    /\ Idle
    /\ op' = [name |-> "covered"]
    /\ res' = Covered(a)
    /\ UNCHANGED a

\* a.inverse()
DoInverse ==
    /\ Idle
    /\ op' = [name |-> "inverse", self |-> a]
    /\ res' = Inverse(a)
    /\ UNCHANGED a

\* a.absolute_position(rel_pos)
DoAbsolutePosition ==
    /\ Idle
    /\ \E rel_pos \in -1..MaxPos :
        /\ op' = [name |-> "absolute_position", rel_pos |-> rel_pos]
        /\ res' = AbsolutePosition(a, rel_pos)
        /\ UNCHANGED a

\* a.relative_position(abs_pos)
DoRelativePosition ==
    /\ Idle
    /\ \E abs_pos \in -1..MaxPos :
        /\ op' = [name |-> "relative_position", abs_pos |-> abs_pos]
        /\ res' = RelativePosition(a, abs_pos)
        /\ UNCHANGED a

\* the caller goes on with the FeatureMap a call returned
KeepF ==
    /\ res.kind = "map"
    /\ res.val.parent_length <= MaxFLen
    /\ a' = res.val
    /\ op' = [name |-> "new"]
    /\ res' = NoneRes

NextF ==
    \/ DoCovered
    \/ DoInverse
    \/ DoAbsolutePosition
    \/ DoRelativePosition
    \/ KeepF
    \/ Discard

SpecF == InitF /\ [][NextF]_vars

\* ---------------------------------------- from_locations state machine
Locations == {<<s, e>> : s \in -1..MaxCoord, e \in -1..MaxCoord}

\* a is the class from_locations is called on
InitL ==
    /\ a \in {"FeatureMap", "IndelMap"}
    /\ op = [name |-> "new"]
    /\ res = NoneRes

\* a.from_locations(locations, parent_length)
DoFromLocations ==
    /\ Idle
    /\ \E k \in 0..MaxLocs, parent_length \in 0..MaxParent :
       \E locations \in [1..k -> Locations] :
        /\ op' = [name |-> "from_locations", locations |-> locations,
                  parent_length |-> parent_length]
        /\ res' = FromLocations(a, locations, parent_length)
        /\ UNCHANGED a

\* ungapped segments in alignment coordinates: not empty, within the
\* alignment, each one starting after the end of the one before it
Segments(locations, aligned_length) ==
    /\ \A i \in 1..Len(locations) :
         /\ 0 <= locations[i][1]
         /\ locations[i][1] < locations[i][2]
         /\ locations[i][2] <= aligned_length
    /\ \A i \in 1..(Len(locations) - 1) : locations[i][2] < locations[i + 1][1]

\* IndelMap.from_aligned_segments(locations, aligned_length)
DoFromAlignedSegments ==
    /\ Idle
    /\ a = "IndelMap"
    /\ \E k \in 0..MaxLocs, aligned_length \in 0..MaxCoord :
       \E locations \in [1..k -> Locations] :
        /\ Segments(locations, aligned_length)
        /\ op' = [name |-> "from_aligned_segments", locations |-> locations,
                  aligned_length |-> aligned_length]
        /\ res' = FromAlignedSegments(locations, aligned_length)
        /\ UNCHANGED a

NextL ==
    \/ DoFromLocations
    \/ DoFromAlignedSegments
    \/ Discard

SpecL == InitL /\ [][NextL]_vars

\* --------------------------------------- IndelMap views state machine
\* a valid map, built with or without termini_unknown
InitV ==
    /\ \E m \in FirstMaps, termini_unknown \in BOOLEAN :
         a = IF termini_unknown THEN WithTerminiUnknown(m).val ELSE m
    /\ op = [name |-> "new"]
    /\ res = NoneRes

\* list(a.spans)
DoSpans ==
    /\ Idle
    /\ op' = [name |-> "spans"]
    /\ res' = SpansRes(IndelSpans(a))
    /\ UNCHANGED a

\* IndelMap.from_spans(spans, a.parent_length) on the spans just listed
DoFromSpans ==
    /\ res.kind = "spans"
    /\ op' = [name |-> "from_spans", spans |-> res.val]
    /\ res' = FromSpans("IndelMap", res.val, a.parent_length)
    /\ UNCHANGED a

\* a.to_feature_map()
DoToFeatureMap ==
    /\ Idle
    /\ op' = [name |-> "to_feature_map"]
    /\ res' = ToFeatureMap(a)
    /\ UNCHANGED a

\* a.get_coordinates()
DoGetCoordinates ==
    /\ Idle
    /\ op' = [name |-> "get_coordinates"]
    /\ res' = GetCoordinates(a)
    /\ UNCHANGED a

NextV ==
    \/ DoSpans
    \/ DoFromSpans
    \/ DoToFeatureMap
    \/ DoGetCoordinates
    \/ Discard

SpecV == InitV /\ [][NextV]_vars

\* ------------------------------------------------------------- claims
Last(arr) == arr[Len(arr)]

\* total length of the gap runs of m whose index (0-based) is below i
GapTotalBelow(m, i) == IF i = 0 THEN 0 ELSE m.cum_gap_lengths[i]

\* the last call was a.get_align_index(s, flag) with s a sequence index
AlignCall(flag) ==
    /\ op.name = "get_align_index"
    /\ op.slice_stop = flag
    /\ DataModel(a)

\* C1: inverse law. For a valid map and 0 <= s < parent_length,
\* get_seq_index(get_align_index(s)) = s, slice_stop left at its default.
C1_InverseLaw ==
    (AlignCall(FALSE) /\ 0 <= op.seq_index /\ op.seq_index < a.parent_length)
    => /\ res.kind = "int"
       /\ LET back == GetSeqIndex(a, res.val)
          IN back.kind = "int" /\ back.val = op.seq_index

\* a sequence index at the second insertion point, mapped past both runs
C1_Witness ==
    /\ AlignCall(FALSE)
    /\ a.num_gaps = 2
    /\ op.seq_index = a.gap_pos[2]
    /\ op.seq_index < a.parent_length
    /\ res.kind = "int"
    /\ res.val = op.seq_index + a.cum_gap_lengths[2]

\* the last call was a[lo:hi] with integer bounds 0 <= lo <= hi <= len(a)
SliceCall ==
    /\ op.name = "getitem"
    /\ IsNone(op.item.step)
    /\ ~IsNone(op.item.start)
    /\ ~IsNone(op.item.stop)
    /\ 0 <= Get(op.item.start)
    /\ Get(op.item.start) <= Get(op.item.stop)
    /\ Get(op.item.stop) <= MapLen(a)
    /\ DataModel(a)

\* C2: slice size law. For a valid map and 0 <= lo <= hi <= len(m),
\* m[lo:hi] is a map of length hi - lo, whichever branch the slice takes.
C2_SliceSize ==
    SliceCall
    => /\ res.kind = "map"
       /\ MapLen(res.val) = Get(op.item.stop) - Get(op.item.start)

\* a slice that starts strictly inside one gap run and stops strictly
\* inside the next one
C2_Witness ==
    /\ SliceCall
    /\ a.num_gaps = 2
    /\ LET starts == GapStarts(a.gap_pos, a.cum_gap_lengths)
           ends == GapEnds(a.gap_pos, a.cum_gap_lengths)
       IN /\ starts[1] < Get(op.item.start) /\ Get(op.item.start) < ends[1]
          /\ starts[2] < Get(op.item.stop) /\ Get(op.item.stop) < ends[2]
    /\ res.kind = "map"
    /\ res.val.num_gaps = 2

\* C3: concatenation law. For valid maps a and b and 0 <= k < b.parent_length,
\* (a + b).get_align_index(a.parent_length + k) = len(a) + b.get_align_index(k),
\* also when a ends with a gap run and b begins with one.
C3_ConcatLaw ==
    (op.name = "add" /\ DataModel(a) /\ DataModel(op.other))
    => /\ res.kind = "map"
       /\ \A k \in 0..(op.other.parent_length - 1) :
             LET joined == GetAlignIndex(res.val, a.parent_length + k, FALSE)
                 right == GetAlignIndex(op.other, k, FALSE)
             IN /\ joined.kind = "int"
                /\ right.kind = "int"
                /\ joined.val = MapLen(a) + right.val

\* C4 as stated: get_align_index(5) on gap_coords_to_map({2: 1, 5: 2}, 10)
\* returns 6 without slice_stop.
C4_AsStated ==
    (AlignCall(FALSE) /\ a = Example1 /\ op.seq_index = 5)
    => (res.kind = "int" /\ res.val = 6)

\* C4: worked example 1, amended. On gap_coords_to_map({2: 1, 5: 2}, 10),
\* get_align_index(5) returns 8 (the column after the run at 5); it returns 6
\* (the first column of that run) only with slice_stop=True.
C4_Example1 ==
    (op.name = "get_align_index" /\ a = Example1 /\ op.seq_index = 5)
    => /\ res.kind = "int"
       /\ res.val = IF op.slice_stop THEN 6 ELSE 8

C4_Witness ==
    /\ AlignCall(FALSE)
    /\ a = Example1
    /\ op.seq_index = 5
    /\ res.kind = "int"
    /\ res.val = 8

\* C5: slice_stop rule. For a valid map and s = gap_pos[i], slice_stop=True
\* gives s plus the lengths of the runs before run i, slice_stop=False gives s
\* plus the lengths of the runs up to and including run i; for an s that is
\* no insertion point both calls return the same value.
C5_SliceStopRule ==
    (op.name = "get_align_index" /\ DataModel(a)
        /\ 0 <= op.seq_index /\ op.seq_index <= a.parent_length)
    => /\ res.kind = "int"
       /\ \A i \in 1..a.num_gaps :
             a.gap_pos[i] = op.seq_index
             => res.val = op.seq_index
                          + (IF op.slice_stop THEN GapTotalBelow(a, i - 1)
                             ELSE GapTotalBelow(a, i))
       /\ (\A i \in 1..a.num_gaps : a.gap_pos[i] # op.seq_index)
          => LET flipped == GetAlignIndex(a, op.seq_index, ~op.slice_stop)
             IN flipped.kind = "int" /\ flipped.val = res.val

\* slice_stop=True at the second insertion point: the first column of run 2
C5_Witness ==
    /\ AlignCall(TRUE)
    /\ a.num_gaps = 2
    /\ op.seq_index = a.gap_pos[2]
    /\ res.kind = "int"
    /\ res.val = op.seq_index + a.cum_gap_lengths[1]
    /\ GetAlignIndex(a, op.seq_index, FALSE).val = op.seq_index + a.cum_gap_lengths[2]

\* the last call was a.get_seq_index(x) with 0 <= x <= len(a)
SeqCall ==
    /\ op.name = "get_seq_index"
    /\ 0 <= op.align_index
    /\ op.align_index <= MapLen(a)
    /\ DataModel(a)

\* C6: many-to-one collapse. For a valid map, every alignment index inside
\* gap run i maps to gap_pos[i], and get_seq_index returns an integer (never
\* None) for every index in [0, len(m)].
C6_Collapse ==
    SeqCall
    => /\ res.kind = "int"
       /\ LET starts == GapStarts(a.gap_pos, a.cum_gap_lengths)
              ends == GapEnds(a.gap_pos, a.cum_gap_lengths)
          IN \A i \in 1..a.num_gaps :
                (starts[i] <= op.align_index /\ op.align_index < ends[i])
                => res.val = a.gap_pos[i]

\* an alignment index strictly inside the second gap run
C6_Witness ==
    /\ SeqCall
    /\ a.num_gaps = 2
    /\ LET starts == GapStarts(a.gap_pos, a.cum_gap_lengths)
           ends == GapEnds(a.gap_pos, a.cum_gap_lengths)
       IN starts[2] < op.align_index /\ op.align_index < ends[2]
    /\ res.kind = "int"
    /\ res.val = a.gap_pos[2]

\* sum of the lengths of the gap runs of m
TotalGapLength(m) == SumTo(GetGapLengths(m), Len(m.cum_gap_lengths))

LengthLaw(m) ==
    /\ MapLen(m) = m.parent_length
                   + (IF Len(m.cum_gap_lengths) = 0 THEN 0 ELSE Last(m.cum_gap_lengths))
    /\ MapLen(m) = m.parent_length + TotalGapLength(m)

\* C7: length law. Every map, given or returned by slice, +, *, merge_maps,
\* joined_segments, nucleic_reversed or with_termini_unknown, has
\* len(m) = parent_length + last cumulative gap length (0 without gaps);
\* gap_pos=[0,4], cum_gap_lengths=[2,5], parent_length=4 has length 9.
C7_LengthLaw ==
    /\ LengthLaw(a)
    /\ res.kind = "map" => LengthLaw(res.val)
    /\ a = Example2 => MapLen(a) = 9

\* the example map, reversed: still 4 + 5 columns
C7_Witness ==
    /\ a = Example2
    /\ op.name = "nucleic_reversed"
    /\ res.kind = "map"
    /\ res.val.gap_pos = <<0, 4>>
    /\ res.val.cum_gap_lengths = <<3, 5>>
    /\ MapLen(res.val) = 9

SameGapData(m, n) ==
    /\ m.gap_pos = n.gap_pos
    /\ m.cum_gap_lengths = n.cum_gap_lengths
    /\ m.parent_length = n.parent_length

\* C8: serialisation round trip. For a valid map, built from cumulative
\* lengths or from gap lengths, to_rich_dict holds the instance's gap_pos and
\* cum_gap_lengths as integer lists and parent_length as an integer, and
\* from_rich_dict of it has the same gap_pos, cum_gap_lengths, parent_length.
C8_RoundTrip ==
    /\ (op.name = "to_rich_dict" /\ DataModel(a))
       => /\ res.kind = "dict"
          /\ res.val.gap_pos = a.gap_pos
          /\ res.val.cum_gap_lengths = Some(a.cum_gap_lengths)
          /\ res.val.parent_length = a.parent_length
          /\ res.val.parent_length \in Int
          /\ \A i \in 1..Len(res.val.gap_pos) : res.val.gap_pos[i] \in Int
    /\ (op.name = "from_rich_dict" /\ DataModel(a))
       => /\ res.kind = "map"
          /\ SameGapData(res.val, a)

\* a two-gap map built from gap lengths, serialised and read back
C8_Witness ==
    /\ op.name = "from_rich_dict"
    /\ IsNone(a.serialisable.cum_gap_lengths)
    /\ a.num_gaps = 2
    /\ res.kind = "map"
    /\ res.val.cum_gap_lengths = a.cum_gap_lengths
    /\ ~IsNone(res.val.serialisable.cum_gap_lengths)

PosSet(m) == {m.gap_pos[i] : i \in 1..Len(m.gap_pos)}

\* length of the gap run of m at insertion point p, 0 if there is none
LenAt(m, p) ==
    IF p \in PosSet(m)
    THEN GetGapLengths(m)[CHOOSE i \in 1..Len(m.gap_pos) : m.gap_pos[i] = p]
    ELSE 0

\* the last call was a.merge_maps(other) with both maps on one sequence
MergeCall ==
    /\ op.name = "merge_maps"
    /\ DataModel(a)
    /\ DataModel(op.other)
    /\ a.parent_length = op.other.parent_length

\* C9: merge_maps. The result's insertion points are the sorted union of the
\* operands' insertion points, the length at each point is the sum of the
\* operands' lengths there, the total gap length is the sum of the totals, and
\* merging in the other order gives the same map.
C9_Merge ==
    MergeCall
    => /\ res.kind = "map"
       /\ PosSet(res.val) = PosSet(a) \cup PosSet(op.other)
       /\ \A i \in 1..(res.val.num_gaps - 1) : res.val.gap_pos[i] < res.val.gap_pos[i + 1]
       /\ \A i \in 1..res.val.num_gaps :
             GetGapLengths(res.val)[i]
                = LenAt(a, res.val.gap_pos[i]) + LenAt(op.other, res.val.gap_pos[i])
       /\ TotalGapLength(res.val) = TotalGapLength(a) + TotalGapLength(op.other)
       /\ LET swapped == MergeMaps(op.other, a, op.parent_length)
          IN swapped.kind = "map" /\ SameGapData(swapped.val, res.val)

\* two two-gap maps sharing exactly one insertion point
C9_Witness ==
    /\ MergeCall
    /\ a.num_gaps = 2
    /\ op.other.num_gaps = 2
    /\ res.kind = "map"
    /\ res.val.num_gaps = 3
    /\ \E i \in 1..3 : GetGapLengths(res.val)[i] > LenAt(a, res.val.gap_pos[i])
                       /\ LenAt(a, res.val.gap_pos[i]) > 0

\* the last call merged the maps of worked example 5
Example5Call ==
    /\ op.name = "merge_maps"
    /\ a = Example5a
    /\ op.other = Example5b

\* C10 as stated: merging {5: 1, 6: 3} with {2: 1, 5: 3} gives insertion
\* points 2, 5, 6 with lengths 1, 3, 3.
C10_AsStated ==
    Example5Call
    => /\ res.kind = "map"
       /\ res.val.gap_pos = <<2, 5, 6>>
       /\ GetGapLengths(res.val) = <<1, 3, 3>>

\* C10: worked example 5, amended. Merging {5: 1, 6: 3} with {2: 1, 5: 3}
\* gives insertion points 2, 5, 6 with lengths 1, 4, 3: point 5 is in both
\* maps and its lengths 1 and 3 add.
C10_Example5 ==
    Example5Call
    => /\ res.kind = "map"
       /\ res.val.gap_pos = <<2, 5, 6>>
       /\ GetGapLengths(res.val) = <<1, 4, 3>>

C10_Witness ==
    /\ Example5Call
    /\ res.kind = "map"
    /\ res.val.cum_gap_lengths = <<1, 5, 8>>

\* ------------------------------------------------- FeatureMap claims
\* the non-lost spans of a FeatureMap, in the order of the map
NonLostSpans(m) == SelectSeq(m.spans, LAMBDA s : ~s.lost)

\* the (start, end) coordinates of the non-lost spans, in the order of the map
SpanCoords(m) ==
    [i \in 1..Len(NonLostSpans(m)) |-> <<NonLostSpans(m)[i].start, NonLostSpans(m)[i].end>>]

\* the parent positions the non-lost spans cover
SpanPositions(m) ==
    UNION {SpanCoords(m)[i][1]..(SpanCoords(m)[i][2] - 1) : i \in 1..Len(SpanCoords(m))}

\* every non-lost span lies within [0, parent_length]
WithinParent(m) ==
    \A i \in 1..Len(SpanCoords(m)) :
        0 <= SpanCoords(m)[i][1] /\ SpanCoords(m)[i][2] <= m.parent_length

CoveredCall == op.name = "covered"

\* C11: covered() of a map whose non-lost spans lie within the parent
\* returns a map of non-lost spans only, each non-empty, sorted, pairwise
\* disjoint and not touching, that cover exactly the positions the non-lost
\* spans of the map cover; (10,20),(15,25),(80,90) gives (10,25),(80,90).
C11_Covered ==
    (CoveredCall /\ WithinParent(a))
    => /\ res.kind = "map"
       /\ Len(NonLostSpans(res.val)) = Len(res.val.spans)
       /\ \A i \in 1..Len(res.val.spans) :
            /\ res.val.spans[i].start < res.val.spans[i].end
            /\ i > 1 => res.val.spans[i - 1].end < res.val.spans[i].start
       /\ SpanPositions(res.val) = SpanPositions(a)
       /\ a = CoveredExample => SpanCoords(res.val) = <<<<10, 25>>, <<80, 90>>>>

\* an overlapping pair is merged and a separate span is kept apart
C11_Witness ==
    /\ CoveredCall
    /\ WithinParent(a)
    /\ \E i, j \in 1..Len(SpanCoords(a)) :
         /\ i # j
         /\ SpanCoords(a)[i][1] < SpanCoords(a)[j][1]
         /\ SpanCoords(a)[j][1] < SpanCoords(a)[i][2]
    /\ res.kind = "map"
    /\ Len(res.val.spans) = 2

InverseCall == op.name = "inverse"

\* among the non-lost spans in sorted order, some span starts before the end
\* of one sorted before it
StartsBeforePrevEnd(m) ==
    \E i, j \in 1..Len(SpanCoords(m)) :
        /\ i # j
        /\ TupleLeq(SpanCoords(m)[i], SpanCoords(m)[j])
        /\ SpanCoords(m)[j][1] < SpanCoords(m)[i][2]

\* some two non-lost spans overlap, as Span.overlaps tells it
AnyOverlap(m) ==
    \E i, j \in 1..Len(NonLostSpans(m)) :
        i # j /\ SpanOverlaps(NonLostSpans(m)[i], NonLostSpans(m)[j])

\* C13: inverse is an involution on coverage. For a map whose non-lost
\* spans lie within the parent and none of which starts before the end of
\* one sorted before it (any order, forward or reverse, with or without
\* lost spans), inverse() returns a map, inverse() of that map returns a
\* map, and its non-lost spans cover the same parent positions as m's.
C13_Involution ==
    (InverseCall /\ WithinParent(a) /\ ~StartsBeforePrevEnd(a))
    => /\ res.kind = "map"
       /\ Inverse(res.val).kind = "map"
       /\ SpanPositions(Inverse(res.val).val) = SpanPositions(a)

\* two non-lost spans out of order, the first reversed, with a lost span
\* needed between them in the inverse
C13_Witness ==
    /\ InverseCall
    /\ WithinParent(a)
    /\ ~StartsBeforePrevEnd(a)
    /\ Len(a.spans) = 2
    /\ Len(NonLostSpans(a)) = 2
    /\ a.spans[1].reverse
    /\ a.spans[1].start > a.spans[2].end
    /\ a.spans[2].start < a.spans[2].end
    /\ res.kind = "map"
    /\ Inverse(res.val).kind = "map"

C18_PositionIdentity ==
    /\ (op.name = "absolute_position" /\ op.rel_pos < 0) => res.kind = "raise"
    /\ (op.name = "relative_position" /\ op.abs_pos < 0) => res.kind = "raise"
    /\ (op.name = "absolute_position" /\ op.rel_pos >= 0
            /\ FeatureLen(a) = a.parent_length)
       => /\ res = IntRes(op.rel_pos)
          /\ RelativePosition(a, res.val) = IntRes(op.rel_pos)
    /\ (op.name = "relative_position" /\ op.abs_pos >= 0
            /\ FeatureLen(a) = a.parent_length)
       => res = IntRes(op.abs_pos)

\* --------------------------------------------- from_locations claims
LocationsCall == op.name = "from_locations"

\* some pair of the list lies wholly before a pair that precedes it
NotAscending(locations) ==
    \E i, j \in 1..Len(locations) :
        /\ i < j
        /\ locations[j][2] <= locations[i][1]
        /\ locations[j][1] < locations[i][1]

\* some pair has a negative coordinate or its start after its end
IllFormed(locations) ==
    \E i \in 1..Len(locations) :
        \/ locations[i][1] < 0
        \/ locations[i][2] < 0
        \/ locations[i][1] > locations[i][2]

\* C16: from_locations rejects every location list that holds a negative
\* coordinate, a pair with start > end, or a pair lying before an earlier
\* pair of the list; every list it accepts is in ascending order.
C16_RejectsUnordered ==
    LocationsCall
    => /\ IllFormed(op.locations) => res.kind = "raise"
       /\ NotAscending(op.locations) => res.kind = "raise"
       /\ res.kind = "map" => ~NotAscending(op.locations)

RECURSIVE SumExtents(_, _)
SumExtents(locations, i) ==
    IF i > Len(locations) THEN 0
    ELSE (locations[i][2] - locations[i][1]) + SumExtents(locations, i + 1)

\* C17: for a list of well-formed locations that passes the check of the
\* first start against the last end, FeatureMap.from_locations raises
\* RuntimeError ('located outside sequence') when some location starts
\* after parent_length; otherwise it returns a map whose length is the sum
\* of end - start, and a single location with start <= parent_length < end
\* gives Span(start, parent_length) followed by LostSpan(end - parent_length).
C17_OutsideAndPartial ==
    (/\ LocationsCall
     /\ a = "FeatureMap"
     /\ Len(op.locations) > 0
     /\ ~IllFormed(op.locations)
     /\ op.locations[1][1] <= op.locations[Len(op.locations)][2])
    => IF \E i \in 1..Len(op.locations) : op.locations[i][1] > op.parent_length
       THEN res = Raise("RuntimeError")
       ELSE /\ res.kind = "map"
            /\ FeatureLen(res.val) = SumExtents(op.locations, 1)
            /\ (Len(op.locations) = 1 /\ op.locations[1][2] > op.parent_length)
               => res.val.spans =
                    <<Span2(op.locations[1][1], op.parent_length),
                      LostSpanNew(op.locations[1][2] - op.parent_length, None)>>

\* one location that starts inside the parent and ends past it
C17_Witness ==
    /\ LocationsCall
    /\ a = "FeatureMap"
    /\ Len(op.locations) = 1
    /\ 0 <= op.locations[1][1]
    /\ op.locations[1][1] < op.parent_length
    /\ op.locations[1][2] > op.parent_length
    /\ res.kind = "map"
    /\ Len(res.val.spans) = 2
    /\ res.val.spans[2].lost

\* ------------------------------------------- further IndelMap claims
\* a slice bound after sign normalisation: None is the default, a negative
\* bound counts from the end
NormBound(bound, default, length) ==
    IF IsNone(bound) THEN default
    ELSE IF Get(bound) >= 0 THEN Get(bound)
    ELSE length + Get(bound)

\* C15: out-of-range slicing is rejected: when, after sign normalisation,
\* start or stop lies outside [0, len(m)], m[start:stop] raises instead of
\* returning a map.
C15_OutOfRange ==
    (/\ op.name = "getitem"
     /\ IsNone(op.item.step)
     /\ DataModel(a)
     /\ \/ NormBound(op.item.start, 0, MapLen(a)) \notin 0..MapLen(a)
        \/ NormBound(op.item.stop, MapLen(a), MapLen(a)) \notin 0..MapLen(a))
    => res.kind = "raise"

\* dict(pairs) for a list of (key, value) pairs
RECURSIVE DictOf(_, _, _)
DictOf(pairs, i, d) ==
    IF i > Len(pairs) THEN d
    ELSE DictOf(pairs, i + 1, DictPut(d, pairs[i][1], pairs[i][2]))

\* C19: gap dictionary round trip. For every dictionary g of positive gap
\* lengths at insertion points in [0, n], the pairs returned by
\* gap_coords_to_map(g, n).get_gap_coordinates() are in ascending order of
\* position and dict() of them is g.
C19_GapDictRoundTrip ==
    op.name = "get_gap_coordinates"
    => \A g \in GapDicts(a.parent_length) :
         GapCoordsToMap(g, a.parent_length) = MapRes(a)
         => /\ res.kind = "list"
            /\ \A i \in 1..(Len(res.val) - 1) : res.val[i][1] < res.val[i + 1][1]
            /\ DictOf(res.val, 1, EmptyDict) = g

\* the map came from a dictionary of two gaps of different lengths
C19_Witness ==
    /\ op.name = "get_gap_coordinates"
    /\ \E g \in GapDicts(a.parent_length) : GapCoordsToMap(g, a.parent_length) = MapRes(a)
    /\ res.kind = "list"
    /\ Len(res.val) = 2
    /\ res.val[1][2] # res.val[2][2]

\* a[start:end] for one (start, end) range
RangeSlice(m, c) == SliceMap(m, [start |-> Some(c[1]), stop |-> Some(c[2]), step |-> None])

\* the sum of len(m[start:end]) over the ranges from the k-th on
RECURSIVE SumSliceLens(_, _, _)
SumSliceLens(m, coords, k) ==
    IF k > Len(coords) THEN 0
    ELSE MapLen(RangeSlice(m, coords[k]).val) + SumSliceLens(m, coords, k + 1)

\* C20: joined_segments length law. For a valid map and ranges with
\* 0 <= start <= end <= len(m), joined_segments returns a valid map whose
\* length is the sum of the lengths of the slices m[start:end], which is the
\* sum of end - start; gap runs that meet at a join become one run.
C20_JoinLength ==
    (op.name = "joined_segments" /\ DataModel(a))
    => /\ res.kind = "map"
       /\ \A k \in 1..Len(op.coords) : RangeSlice(a, op.coords[k]).kind = "map"
       /\ MapLen(res.val) = SumSliceLens(a, op.coords, 1)
       /\ MapLen(res.val) = SumExtents(op.coords, 1)
       /\ DataModel(res.val)

\* the first range ends inside a gap run and the second begins inside a gap
\* run: the two retained parts are one run of the result
C20_Witness ==
    /\ op.name = "joined_segments"
    /\ DataModel(a)
    /\ Len(op.coords) = 2
    /\ op.coords[1][2] <= op.coords[2][1]
    /\ RangeSlice(a, op.coords[1]).val.num_gaps > 0
    /\ RangeSlice(a, op.coords[2]).val.num_gaps > 0
    /\ At(RangeSlice(a, op.coords[1]).val.gap_pos, -1)
         = RangeSlice(a, op.coords[1]).val.parent_length
    /\ At(RangeSlice(a, op.coords[2]).val.gap_pos, 0) = 0
    /\ res.kind = "map"
    /\ res.val.num_gaps
         < RangeSlice(a, op.coords[1]).val.num_gaps
           + RangeSlice(a, op.coords[2]).val.num_gaps

\* ----------------------------------------- IndelMap views claims
\* C27: get_coordinates() of a valid map returns (start, end) pairs in
\* ascending order that tile the sequence: the first start is 0, each start
\* is the previous end, and the last end is parent_length.
C27_Coordinates ==
    (op.name = "get_coordinates" /\ DataModel(a))
    => /\ res.kind = "list"
       /\ Len(res.val) > 0
       /\ res.val[1][1] = 0
       /\ \A i \in 1..Len(res.val) : res.val[i][1] <= res.val[i][2]
       /\ \A i \in 2..Len(res.val) : res.val[i][1] = res.val[i - 1][2]
       /\ res.val[Len(res.val)][2] = a.parent_length

\* the sum of the lengths of the first n spans
RECURSIVE SpanLenSum(_, _)
SpanLenSum(spans, n) ==
    IF n = 0 THEN 0 ELSE SpanLenSum(spans, n - 1) + spans[n].length

\* the sum of the lengths of the non-lost spans among the first n
RECURSIVE NonLostLenSum(_, _)
NonLostLenSum(spans, n) ==
    IF n = 0 THEN 0
    ELSE NonLostLenSum(spans, n - 1) + (IF spans[n].lost THEN 0 ELSE spans[n].length)

\* C28: in the spans of a valid map with termini_unknown set, a gap run is
\* a TerminalPadding exactly when its insertion point is 0 or parent_length,
\* and the span lengths are those of the same map without termini_unknown.
C28_TerminalPadding ==
    (op.name = "spans" /\ DataModel(a) /\ a.termini_unknown)
    => /\ \A j \in 1..Len(res.val) :
            res.val[j].lost
            => (res.val[j].terminal
                <=> NonLostLenSum(res.val, j - 1) \in {0, a.parent_length})
       /\ LET plain == IndelSpans([a EXCEPT !.termini_unknown = FALSE])
          IN /\ Len(plain) = Len(res.val)
             /\ \A j \in 1..Len(plain) :
                  /\ plain[j].length = res.val[j].length
                  /\ plain[j].lost = res.val[j].lost

\* C29: compact / explicit round trip. The spans of a valid map never have
\* two lost spans in a row, their lengths sum to len(m) and the non-lost
\* ones to parent_length; from_spans of them has the gap_pos,
\* cum_gap_lengths and parent_length of m; to_feature_map() has the length
\* and parent_length of m.
C29_SpansRoundTrip ==
    /\ (op.name = "spans" /\ DataModel(a))
       => /\ \A j \in 1..(Len(res.val) - 1) : ~(res.val[j].lost /\ res.val[j + 1].lost)
          /\ SpanLenSum(res.val, Len(res.val)) = MapLen(a)
          /\ NonLostLenSum(res.val, Len(res.val)) = a.parent_length
    /\ (op.name = "from_spans" /\ DataModel(a))
       => /\ res.kind = "map"
          /\ res.val.gap_pos = a.gap_pos
          /\ res.val.cum_gap_lengths = a.cum_gap_lengths
          /\ res.val.parent_length = a.parent_length
    /\ (op.name = "to_feature_map" /\ DataModel(a))
       => /\ res.kind = "map"
          /\ FeatureLen(res.val) = MapLen(a)
          /\ res.val.parent_length = a.parent_length

\* from_spans rebuilt a map with two gap runs, the first at 0
C29_Witness ==
    /\ op.name = "from_spans"
    /\ DataModel(a)
    /\ a.num_gaps = 2
    /\ At(a.gap_pos, 0) = 0
    /\ res.kind = "map"
    /\ res.val.cum_gap_lengths = a.cum_gap_lengths

\* the columns of a list of spans: TRUE for a gap column, FALSE otherwise
RECURSIVE Columns(_, _)
Columns(spans, j) ==
    IF j > Len(spans) THEN <<>>
    ELSE [k \in 1..spans[j].length |-> spans[j].lost] \o Columns(spans, j + 1)

\* the gap / non-gap pattern of an IndelMap, column by column
Pattern(m) == Columns(IndelSpans(m), 1)

\* C23: slice agrees with the explicit representation. For a valid map and
\* 0 <= lo < hi <= len(m), the column pattern of m[lo:hi] is columns
\* lo..hi-1 of the pattern of m, and the parent_length of the result is the
\* number of non-gap columns among them.
C23_SlicePattern ==
    (SliceCall /\ Get(op.item.start) < Get(op.item.stop))
    => /\ res.kind = "map"
       /\ Pattern(res.val)
            = SubSeq(Pattern(a), Get(op.item.start) + 1, Get(op.item.stop))
       /\ res.val.parent_length
            = Cardinality({c \in (Get(op.item.start) + 1)..Get(op.item.stop) :
                              ~Pattern(a)[c]})

\* lo and hi both fall inside gap runs, which are cut to the retained part
C23_Witness ==
    /\ SliceCall
    /\ Get(op.item.start) > 0
    /\ Get(op.item.stop) < MapLen(a)
    /\ Pattern(a)[Get(op.item.start)]
    /\ Pattern(a)[Get(op.item.start) + 1]
    /\ Pattern(a)[Get(op.item.stop)]
    /\ Pattern(a)[Get(op.item.stop) + 1]
    /\ res.kind = "map"
    /\ res.val.num_gaps = 2
    /\ res.val.parent_length > 0

\* the IndelMap operands of the last call satisfy the data model
OperandsValid ==
    /\ DataModel(a)
    /\ op.name \in {"add", "merge_maps"} => DataModel(op.other)

\* C21: data-model invariant preserved by every transformation. If the
\* operands have strictly ascending gap_pos within [0, parent_length] and
\* strictly increasing positive cum_gap_lengths of the same length, the map
\* returned by slice, +, scaling by k >= 1, merge_maps, joined_segments and
\* nucleic_reversed satisfies all of these too.
C21_DataModelPreserved ==
    (/\ op.name \in {"getitem", "add", "mul", "merge_maps",
                     "joined_segments", "nucleic_reversed"}
     /\ OperandsValid
     /\ res.kind = "map")
    => DataModel(res.val)

\* ---------------------------------------------------------------------
\* In-place array writes of the IndelMap methods
\* ---------------------------------------------------------------------
\* numpy.ndarray.copy(): the buffer the copy writes to is its own. Basic
\* slicing (a view) keeps the buffer of the array it was taken from.
ArrayShare(buffer) == buffer

\* as ArrayCopy, but handing back the array itself
ArrayNoCopy(buffer) == buffer

ArrayCopy(buffer) == "local"

\* one in-place write: the buffer, the (0-based) index, the value stored
WriteTo(buffer, index, value) == [base |-> buffer, index |-> index, value |-> value]

\* get_gap_lengths: lengths = cum_gap_lengths.copy(); lengths[1:] = diff(lengths)
GetGapLengthsWrites(m, buffer) ==
    LET lengths == ArrayCopy(buffer)
    IN [i \in 1..(Len(m.cum_gap_lengths) - 1) |->
           WriteTo(lengths, i, m.cum_gap_lengths[i + 1] - m.cum_gap_lengths[i])]

\* the in-place writes of __getitem__(slice) on the path through the gaps
SliceGappedWrites(m, start, stop) ==
    LET gap_starts == GapStarts(m.gap_pos, m.cum_gap_lengths)
        gap_ends == GapEnds(m.gap_pos, m.cum_gap_lengths)
        gap_pos == ArrayCopy("self.gap_pos")
        cum_lengths == ArrayCopy("self.cum_gap_lengths")
        l == SearchSortedLeft(gap_ends, start)
    IN IF At(gap_starts, l) <= start /\ start < At(gap_ends, l) /\ stop <= At(gap_ends, l)
       THEN \* cum_lengths = cum_lengths[l : l + 1]; cum_lengths[0] = stop - start
            <<WriteTo(ArrayShare(cum_lengths), l, stop - start)>>
       ELSE
       LET lengths == ArrayCopy("self.cum_gap_lengths")
           lengths0 == GetGapLengths(m)
           first_gap == At(m.gap_pos, 0)
           in_gap == At(gap_starts, l) <= start /\ start < At(gap_ends, l)
           at_end == start = At(gap_ends, l)
           begin == IF start < first_gap THEN 0
                    ELSE IF in_gap THEN l
                    ELSE IF at_end THEN l + 1
                    ELSE l
           begin_diff == start - At(gap_starts, l)
           cut_start == start >= first_gap /\ in_gap
           lengths1 == IF cut_start THEN [lengths0 EXCEPT ![l + 1] = @ - begin_diff]
                       ELSE lengths0
           shift == IF start < first_gap THEN start
                    ELSE IF in_gap
                         THEN (IF l # 0
                               THEN start - At(m.cum_gap_lengths, l - 1) - begin_diff
                               ELSE At(m.gap_pos, 0))
                    ELSE IF at_end THEN start - At(m.cum_gap_lengths, l)
                    ELSE (IF l # 0 THEN start - At(m.cum_gap_lengths, l - 1) ELSE start)
           r == SearchSortedRight(PySlice(gap_ends, l, Len(gap_ends)), stop) + l
           stop_in_gap == r # m.num_gaps /\ At(gap_starts, r) < stop /\ stop <= At(gap_ends, r)
           end == IF r = m.num_gaps THEN r ELSE IF stop_in_gap THEN r + 1 ELSE r
           end_diff == At(gap_ends, r) - stop
           pos_result == ArrayShare(gap_pos)
       IN GetGapLengthsWrites(m, "self.cum_gap_lengths")
          \o (IF cut_start THEN <<WriteTo(lengths, l, lengths0[l + 1] - begin_diff)>>
              ELSE <<>>)
          \o (IF stop_in_gap THEN <<WriteTo(lengths, r, lengths1[r + 1] - end_diff)>>
              ELSE <<>>)
          \o [i \in 1..(end - begin) |->
                 WriteTo(pos_result, begin + i - 1, m.gap_pos[begin + i] - shift)]

\* the in-place writes of __getitem__(slice)
SliceWrites(m, item) ==
    IF ~IsNone(item.step) THEN <<>>
    ELSE
    LET start0 == IF IsNone(item.start) \/ Get(item.start) = 0 THEN 0 ELSE Get(item.start)
        stop0 == IF ~IsNone(item.stop) THEN Get(item.stop) ELSE MapLen(m)
        start == IF start0 >= 0 THEN start0 ELSE MapLen(m) + start0
        stop == IF stop0 >= 0 THEN stop0 ELSE MapLen(m) + stop0
    IN IF start < 0 \/ stop < 0 THEN <<>>
       ELSE IF start >= stop THEN <<>>
       ELSE IF m.num_gaps = 0 THEN <<>>
       ELSE IF stop < At(m.gap_pos, 0)
               \/ start >= At(m.gap_pos, -1) + At(m.cum_gap_lengths, -1)
            THEN <<>>
       ELSE SliceGappedWrites(m, start, stop)

\* joined_segments: one slice of self for each pair of sorted(coords)
RECURSIVE JoinedSegmentsWrites(_, _, _)
JoinedSegmentsWrites(m, coords, k) ==
    IF k > Len(coords) THEN <<>>
    ELSE SliceWrites(m, [start |-> Some(coords[k][1]), stop |-> Some(coords[k][2]),
                         step |-> None])
         \o JoinedSegmentsWrites(m, coords, k + 1)

\* the in-place array writes that the call makes on the map m
Writes(m, call) ==
    CASE call.name = "getitem" -> SliceWrites(m, call.item)
      [] call.name = "joined_segments"
            -> JoinedSegmentsWrites(m, SortCoords(call.coords), 1)
      [] call.name \in {"merge_maps", "nucleic_reversed", "get_gap_coordinates"}
            -> GetGapLengthsWrites(m, "self.cum_gap_lengths")
      [] OTHER -> <<>>

\* the arrays of m once the writes have landed
RECURSIVE ApplyWrites(_, _, _)
ApplyWrites(m, writes, k) ==
    IF k > Len(writes) THEN m
    ELSE LET w == writes[k]
             next == IF w.base = "self.gap_pos"
                     THEN [m EXCEPT !.gap_pos[w.index + 1] = w.value]
                     ELSE IF w.base = "self.cum_gap_lengths"
                     THEN [m EXCEPT !.cum_gap_lengths[w.index + 1] = w.value]
                     ELSE m
         IN ApplyWrites(next, writes, k + 1)

CacheLimit == 1000

\* as LostSpan, but interning a lost span whatever its value
LostSpanAnyValue(cache, length, value) ==
    IF length < CacheLimit
    THEN LET stored == IF length \in DOMAIN cache THEN cache
                       ELSE cache @@ (length :> LostSpanNew(length, value))
         IN [cache |-> stored, span |-> stored[length], cached |-> TRUE]
    ELSE [cache |-> cache, span |-> LostSpanNew(length, value), cached |-> FALSE]

\* LostSpan(length, value) with _lost_span_cache = cache: the cache after
\* the call, the span returned, and whether it is the cache's own object
LostSpan(cache, length, value) ==
    IF IsNone(value) /\ length < CacheLimit
    THEN LET stored == IF length \in DOMAIN cache THEN cache
                       ELSE cache @@ (length :> LostSpanNew(length, value))
         IN [cache |-> stored, span |-> stored[length], cached |-> TRUE]
    ELSE [cache |-> cache, span |-> LostSpanNew(length, value), cached |-> FALSE]

\* _norm_index: i is None or an integer
NormIndex(i, length, default) ==
    LET j == IF IsNone(i) THEN default
             ELSE IF Get(i) < 0 THEN Get(i) + length
             ELSE Get(i)
    IN Min2(Max2(j, 0), length)

\* Span.__getitem__ / _LostSpan.__getitem__ with slice(lo, hi); the two
\* forms remap_with uses, [:hi] and [lo:], always satisfy start <= end
SpanGetItem(s, lo, hi) ==
    LET start == NormIndex(lo, s.length, 0)
        end == NormIndex(hi, s.length, s.length)
    IN IF s.lost
       THEN [LostSpanNew(IF end >= start THEN end - start ELSE start - end, s.value)
                EXCEPT !.terminal = s.terminal]
       ELSE LET tidy_start == s.tidy_start /\ start = 0
                tidy_end == s.tidy_end /\ end = s.length
            IN IF s.reverse
               THEN SpanNew(s.end - end, Some(s.end - start), tidy_start, tidy_end,
                            s.value, TRUE)
               ELSE SpanNew(s.start + start, Some(s.start + end), tidy_start, tidy_end,
                            s.value, FALSE)

\* an object in a list: the span, the position (from 1) it has in the
\* parent map's spans when it is the parent's own object (0 otherwise), and
\* whether it is an object of the LostSpan cache
Held(ref, cached, span) == [ref |-> ref, cached |-> cached, span |-> span]

\* Span.reversed (a new Span) / _LostSpan.reversed (self)
ReversedHeld(e) ==
    IF e.span.lost THEN e
    ELSE Held(0, FALSE,
              SpanNew(e.span.start, Some(e.span.end), e.span.tidy_end,
                      e.span.tidy_start, e.span.value, ~e.span.reverse))

\* result[k].attr = v: the object is changed wherever it is held, in the
\* result, in the parent map and in the cache. A _LostSpan has __slots__
\* without tidy_start and tidy_end (AttributeError); a TerminalPadding
\* takes them in its instance dictionary.
SetAttr(st, k, attr, v) ==
    LET e == st.result[k]
    IN IF e.span.lost /\ attr # "value"
       THEN (IF e.span.terminal THEN st ELSE [st EXCEPT !.raised = TRUE])
       ELSE LET new == IF attr = "tidy_start" THEN [e.span EXCEPT !.tidy_start = v]
                       ELSE IF attr = "tidy_end" THEN [e.span EXCEPT !.tidy_end = v]
                       ELSE [e.span EXCEPT !.value = v]
            IN [st EXCEPT !.result[k].span = new,
                          !.map = IF e.ref > 0 THEN [@ EXCEPT !.spans[e.ref] = new] ELSE @,
                          !.cache = IF e.cached THEN [@ EXCEPT ![e.span.length] = new]
                                    ELSE @]

\* s.value = value for every object of the result, from position k on
RECURSIVE StampValue(_, _, _)
StampValue(st, k, value) ==
    IF k > Len(st.result) THEN st
    ELSE StampValue(SetAttr(st, k, "value", value), k + 1, value)

\* is this span of a map the cache's object for its length
IsCached(span, cache) ==
    /\ span.lost
    /\ ~span.terminal
    /\ IsNone(span.value)
    /\ span.length \in DOMAIN cache

\* result[-1] = result[-1][: result[-1].length - end_trim] and
\* result[0] = result[0][start_trim:], when there is a result to cut
TrimResult(result, end_trim, start_trim) ==
    LET n == Len(result)
    IN [k \in 1..n |->
           IF k = 1 /\ start_trim > 0
           THEN Held(0, FALSE,
                     SpanGetItem(IF n = 1 /\ end_trim > 0
                                 THEN SpanGetItem(result[1].span, None,
                                                  Some(result[1].span.length - end_trim))
                                 ELSE result[1].span,
                                 Some(start_trim), None))
           ELSE IF k = n /\ end_trim > 0
           THEN Held(0, FALSE,
                     SpanGetItem(result[n].span, None,
                                 Some(result[n].span.length - end_trim)))
           ELSE result[k]]

\* result.insert(0, LostSpan(-self.start)) when self starts below 0, then
\* result.append(LostSpan(self.end - map_length)) when it ends past the map
AddLost(st, s, map_length) ==
    LET low == LostSpan(st.cache, -s.start, None)
        below == IF s.start < 0
                 THEN [st EXCEPT !.result = <<Held(0, low.cached, low.span)>> \o @,
                                 !.cache = low.cache]
                 ELSE st
        high == LostSpan(below.cache, s.end - map_length, None)
    IN IF s.end > map_length
       THEN [below EXCEPT !.result = Append(@, Held(0, high.cached, high.span)),
                          !.cache = high.cache]
       ELSE below

\* result[0].tidy_start = True and result[-1].tidy_end = True, when self
\* has the flag and there is a result
TidyEnds(st, s) ==
    IF Len(st.result) = 0 THEN st
    ELSE LET first_set == IF s.tidy_start THEN SetAttr(st, 1, "tidy_start", TRUE)
                          ELSE st
         IN IF s.tidy_end /\ ~first_set.raised
            THEN SetAttr(first_set, Len(st.result), "tidy_end", TRUE)
            ELSE first_set

\* the end of remap_with: the parts reversed for a reverse span, then
\* copied (copy.copy builds a new object by __init__ from __getstate__)
\* and stamped with the value of a span that has one
ReverseAndStamp(st, s) ==
    IF st.raised THEN [st EXCEPT !.exc = "AttributeError"]
    ELSE LET n == Len(st.result)
             turned == IF s.reverse
                       THEN [k \in 1..n |-> ReversedHeld(st.result[n + 1 - k])]
                       ELSE st.result
             copied == [k \in 1..n |->
                           LET e == turned[k].span
                           IN Held(0, FALSE,
                                   IF e.lost
                                   THEN [LostSpanNew(e.length, e.value)
                                            EXCEPT !.terminal = e.terminal]
                                   ELSE SpanNew(e.start, Some(e.end), e.tidy_start,
                                                e.tidy_end, e.value, e.reverse))]
         IN IF IsNone(s.value) THEN [st EXCEPT !.result = turned]
            ELSE StampValue([st EXCEPT !.result = copied], 1, s.value)

\* Span.remap_with(map) / _LostSpan.remap_with(map) with the cache as it
\* is: the list returned (or raised = TRUE), the map and the cache after
RemapWith(s, map, cache) ==
    IF s.lost
    THEN [result |-> <<Held(0, IsCached(s, cache), s)>>, map |-> map, cache |-> cache,
          raised |-> FALSE, exc |-> ""]
    ELSE IF Len(map.spans) = 0
    THEN [result |-> <<>>, map |-> map, cache |-> cache, raised |-> TRUE,
          exc |-> "IndexError"]
    ELSE
    LET offsets == map.offsets
        spans == map.spans
        map_length == At(offsets, -1) + At(spans, -1).length
        zlo == Max2(0, s.start)
        zhi == Min2(map_length, s.end)
        first == SearchSortedRight(offsets, zlo) - 1
        \* bisect_left(offsets, zhi, first) - 1
        last == first + Cardinality({i \in (first + 1)..Len(offsets) : offsets[i] < zhi}) - 1
        picked == [k \in 1..(last - first + 1) |->
                      Held(first + k, IsCached(spans[first + k], cache), spans[first + k])]
        end_trim == At(offsets, last) + At(spans, last).length - zhi
        start_trim == zlo - At(offsets, first)
    IN ReverseAndStamp(
           TidyEnds(
               AddLost([result |-> TrimResult(picked, end_trim, start_trim),
                        map |-> map, cache |-> cache, raised |-> FALSE, exc |-> ""],
                       s, map_length),
               s),
           s)

\* the spans of the accumulated parts once the call is over: an object of
\* the parent map is what the parent map holds
Resolve(result, map) ==
    [k \in 1..Len(result) |->
        IF result[k].ref > 0 THEN map.spans[result[k].ref] ELSE result[k].span]

\* _norm_slice(index, length) for an integer, a slice or a map
NormSlice(item, length) ==
    IF item.kind = "int"
    THEN LET start == IF item.val < 0 THEN item.val + length ELSE item.val
         IN IF start >= length THEN Raise("IndexError")
            ELSE [kind |-> "slice", lo |-> start, hi |-> start + 1, step |-> Some(1)]
    ELSE [kind |-> "slice",
          lo |-> NormIndex(item.start, length, 0),
          hi |-> NormIndex(item.stop, length, length),
          step |-> item.step]

\* as_map(slice, length, FeatureMap)
AsMap(item, length) ==
    IF item.kind = "map" THEN MapRes(item.val)
    ELSE LET n == NormSlice(item, length)
         IN IF n.kind = "raise" THEN n
            ELSE IF ~IsNone(n.step) /\ Get(n.step) \notin {0, 1}
            THEN Raise("AssertionError")
            ELSE FromLocations("FeatureMap",
                               IF n.lo > n.hi THEN <<>> ELSE <<<<n.lo, n.hi>>>>, length)

\* FeatureMap.__getitem__, the loop over the spans of new_map
RECURSIVE RemapLoop(_, _, _)
RemapLoop(xspans, i, st) ==
    IF i > Len(xspans) \/ st.raised THEN st
    ELSE LET r == RemapWith(xspans[i], st.map, st.cache)
         IN RemapLoop(xspans, i + 1,
                      [result |-> st.result \o r.result, map |-> r.map,
                       cache |-> r.cache, raised |-> r.raised, exc |-> r.exc])

\* FeatureMap.__getitem__(new_map) with the cache as it is: what the call
\* returns or raises, the map and the cache after
FeatureGetItem(m, item, cache) ==
    LET new_map == AsMap(item, FeatureLen(m))
    IN IF new_map.kind = "raise" THEN [res |-> new_map, map |-> m, cache |-> cache]
       ELSE LET st == RemapLoop(new_map.val.spans, 1,
                          [result |-> <<>>, map |-> m, cache |-> cache,
                           raised |-> FALSE, exc |-> ""])
            IN [res |-> IF st.raised THEN Raise(st.exc)
                        ELSE MapRes(FeatureMapNew(Resolve(st.result, st.map),
                                                  m.parent_length)),
                map |-> st.map,
                cache |-> st.cache]

\* ------------------------------------------ FeatureMap serialisation
\* Span.to_rich_dict / _LostSpan.to_rich_dict: the arguments the span was
\* built with, and its type
SpanToRichDict(s) ==
    [type |-> IF ~s.lost THEN "cogent3.core.location.Span"
              ELSE IF s.terminal THEN "cogent3.core.location.TerminalPadding"
              ELSE "cogent3.core.location._LostSpan",
     args |-> s.serialisable]

\* FeatureMap.to_rich_dict
FeatureToRichDict(m) ==
    [type |-> "cogent3.core.location.FeatureMap",
     spans |-> [k \in 1..Len(m.spans) |-> SpanToRichDict(m.spans[k])],
     parent_length |-> m.parent_length]

\* klass(**element) for the dictionary of a span
SpanFromRichDict(element) ==
    IF element.type = "cogent3.core.location.Span"
    THEN SpanNew(element.args.start, element.args.end, element.args.tidy_start,
                 element.args.tidy_end, element.args.value, element.args.reverse)
    ELSE [LostSpanNew(element.args.length, element.args.value)
             EXCEPT !.terminal = (element.type = "cogent3.core.location.TerminalPadding")]

\* FeatureMap.from_rich_dict
FeatureFromRichDict(map_element) ==
    IF map_element.type # "cogent3.core.location.FeatureMap" THEN Raise("AssertionError")
    ELSE MapRes(FeatureMapNew(
             [k \in 1..Len(map_element.spans) |-> SpanFromRichDict(map_element.spans[k])],
             map_element.parent_length))

\* cogent3.util.deserialise.deserialise_map_spans: the map and the spans
\* are built again from the dictionary
DeserialiseMapSpans(data) == FeatureFromRichDict(data)

\* the cache after LostSpan(length, value) was called for each lost span of
\* spans, from position k on
RECURSIVE CacheAdd(_, _, _)
CacheAdd(cache, spans, k) ==
    IF k > Len(spans) THEN cache
    ELSE CacheAdd(IF spans[k].lost
                  THEN LostSpan(cache, spans[k].length, spans[k].value).cache
                  ELSE cache,
                  spans, k + 1)

\* FeatureMap.zeroed, the loop over the spans: the greatest shifted end
RECURSIVE ZeroedEnd(_, _, _, _)
ZeroedEnd(spans, k, shift, new_end) ==
    IF k > Len(spans) THEN new_end
    ELSE ZeroedEnd(spans, k + 1, shift,
                   IF spans[k].lost THEN new_end
                   ELSE Max2(new_end, spans[k].end - shift))

\* FeatureMap.zeroed with the cache as it is: what the call returns or
\* raises, and the cache after
Zeroed(m, cache) ==
    LET made == DeserialiseMapSpans(FeatureToRichDict(m))
    IN IF made.kind = "raise" THEN [res |-> made, cache |-> cache]
       ELSE
       LET zeroed == made.val
           \* FeatureMap.end: self._end or 0
           end == IF IsNone(zeroed.end_) THEN 0 ELSE Get(zeroed.end_)
           covering == FromLocations("FeatureMap", <<<<FeatureStart(zeroed), end>>>>,
                                     zeroed.parent_length)
       IN IF covering.kind = "raise" THEN [res |-> covering, cache |-> cache]
          ELSE
          LET shift == Min2(FeatureStart(zeroed), end)
              shifted == [k \in 1..Len(zeroed.spans) |->
                             IF zeroed.spans[k].lost THEN zeroed.spans[k]
                             ELSE [zeroed.spans[k] EXCEPT !.start = @ - shift,
                                                          !.end = @ - shift]]
          IN [res |-> MapRes([zeroed EXCEPT
                                 !.parent_length = FeatureLen(covering.val),
                                 !.spans = shifted,
                                 !.start_ = Some(0),
                                 !.end_ = Some(ZeroedEnd(zeroed.spans, 1, shift, 0))]),
              cache |-> CacheAdd(cache, covering.val.spans, 1)]

\* ------------------------------- FeatureMap composition state machine
\* spans a caller can build: any coordinates from -MaxBelow to MaxCoord, any
\* flags, with or without a value
RemapSpans ==
    {SpanNew(c[1], Some(c[2]), ts, te, v, r) :
        c \in {c \in ((-MaxBelow)..MaxCoord) \X ((-MaxBelow)..MaxCoord) : c[1] <= c[2]},
        ts \in BOOLEAN, te \in BOOLEAN, v \in {None, Some("v")}, r \in BOOLEAN}

\* the spans of a map of one span passed to m[...]
ItemSpans ==
    {s \in RemapSpans : s.tidy_start = s.tidy_end /\ (s.reverse => IsNone(s.value))}
    \cup {LostSpanNew(k, None) : k \in 1..MaxLost}

\* what a caller can write between the brackets of m[...]: an integer, a
\* slice, a map of one span, a map of two spans
Items(m) ==
    LET PlainSpans ==
            {SpanNew(c[1], Some(c[2]), t, t, None, FALSE) :
                c \in {c \in (0..MaxCoord) \X (0..MaxCoord) : c[1] < c[2]},
                t \in BOOLEAN}
            \cup {LostSpanNew(k, None) : k \in 1..MaxLost}
    IN
    {[kind |-> "int", val |-> i] : i \in (-1)..MaxCoord}
    \cup {[kind |-> "slice", start |-> b, stop |-> e, step |-> None] :
             b \in OptInts(-1, MaxCoord), e \in OptInts(-1, MaxCoord)}
    \cup {[kind |-> "slice", start |-> None, stop |-> None, step |-> Some(2)]}
    \cup {[kind |-> "map", val |-> FeatureMapNew(<<s>>, FeatureLen(m))] :
             s \in ItemSpans}
    \cup {[kind |-> "map", val |-> FeatureMapNew(<<s, t>>, FeatureLen(m))] :
             s \in PlainSpans, t \in PlainSpans}

\* the maps composition starts from: their spans are not empty and lie
\* within the parent, and the cache holds their lost spans
InitM ==
    /\ \E n \in 0..MaxParent, k \in 1..MaxSpans :
          LET ParentSpans ==
                  {SpanNew(c[1], Some(c[2]), FALSE, FALSE, None, r) :
                      c \in {c \in (0..n) \X (0..n) : c[1] < c[2]}, r \in BOOLEAN}
                  \cup {LostSpanNew(j, None) : j \in 1..MaxLost}
          IN \E spans \in [1..k -> ParentSpans] : a = FeatureMapNew(spans, n)
    /\ op = [name |-> "new"]
    /\ res = NoneRes

\* s.remap_with(a)
DoRemapWith ==
    /\ Idle
    /\ \E s \in RemapSpans :
        LET r == RemapWith(s, a, CacheAdd(EmptyDict, a.spans, 1))
        IN /\ op' = [name |-> "remap_with", span |-> s, self |-> a]
           /\ res' = IF r.raised THEN Raise(r.exc)
                     ELSE SpansRes(Resolve(r.result, r.map))
           /\ a' = r.map

\* a[item]
DoFeatureGetItem ==
    /\ Idle
    /\ \E item \in Items(a) :
        LET r == FeatureGetItem(a, item, CacheAdd(EmptyDict, a.spans, 1))
        IN /\ op' = [name |-> "getitem", item |-> item, self |-> a]
           /\ res' = r.res
           /\ a' = r.map

\* a.zeroed()
DoZeroed ==
    /\ Idle
    /\ op' = [name |-> "zeroed", self |-> a]
    /\ res' = Zeroed(a, CacheAdd(EmptyDict, a.spans, 1)).res
    /\ UNCHANGED a

\* z.to_rich_dict(), for z the map itself, or the map a slice or zeroed()
\* just returned
DoFeatureToRichDict ==
    /\ \/ Idle
       \/ /\ res.kind = "map"
          /\ op.name \in {"getitem", "zeroed"}
          /\ op.name = "getitem" => op.item.kind # "map"
    /\ LET z == IF Idle THEN a ELSE res.val
       IN /\ op' = [name |-> "to_rich_dict", self |-> z, made_by |-> op.name]
          /\ res' = DictRes(FeatureToRichDict(z))
    /\ UNCHANGED a

\* FeatureMap.from_rich_dict(d) on the dictionary just produced
DoFeatureFromRichDict ==
    /\ op.name = "to_rich_dict"
    /\ res.kind = "dict"
    /\ op' = [name |-> "from_rich_dict", self |-> op.self, made_by |-> op.made_by]
    /\ res' = FeatureFromRichDict(res.val)
    /\ UNCHANGED a

NextM ==
    \/ DoRemapWith
    \/ DoFeatureGetItem
    \/ DoZeroed
    \/ DoFeatureToRichDict
    \/ DoFeatureFromRichDict
    \/ Discard

SpecM == InitM /\ [][NextM]_vars

\* ---------------------------------------------------------------------
\* FeatureMap composition claims
\* ---------------------------------------------------------------------
\* C22: remap_with preserves length. For every Span s and every non-empty
\* parent map, the lengths of the spans s.remap_with(parent) returns sum to
\* s.length, wherever s lies; and len(m[x]) = len(x).
C22_RemapLength ==
    /\ (op.name = "remap_with" /\ ~op.span.lost /\ Len(op.self.spans) > 0
            /\ res.kind = "spans")
       => SpanLenSum(res.val, Len(res.val)) = op.span.length
    /\ (op.name = "getitem" /\ Len(op.self.spans) > 0 /\ res.kind = "map")
       => FeatureLen(res.val) = FeatureLen(AsMap(op.item, FeatureLen(op.self)).val)

\* the fields of a span that a caller can read
SpanFields(s) ==
    IF s.lost THEN <<s.length, s.value>>
    ELSE <<s.start, s.end, s.reverse, s.tidy_start, s.tidy_end, s.value>>

\* C25: composition does not alias or modify the parent. After m[x] and
\* after s.remap_with(m), every span held by m has the start, end, reverse,
\* tidy_start, tidy_end and value it had before the call.
C25_ParentKept ==
    op.name \in {"remap_with", "getitem"}
    => /\ Len(a.spans) = Len(op.self.spans)
       /\ \A k \in 1..Len(a.spans) : SpanFields(a.spans[k]) = SpanFields(op.self.spans[k])

\* same start, end and reverse for non-lost spans, same length for lost ones
SameSpans(xs, ys) ==
    /\ Len(xs) = Len(ys)
    /\ \A k \in 1..Len(xs) :
          /\ xs[k].lost = ys[k].lost
          /\ IF xs[k].lost THEN xs[k].length = ys[k].length
             ELSE /\ xs[k].start = ys[k].start
                  /\ xs[k].end = ys[k].end
                  /\ xs[k].reverse = ys[k].reverse

\* C30: serialisation round trip of derived maps. For z built directly,
\* returned by m[x] or by zeroed(), FeatureMap.from_rich_dict(z.to_rich_dict())
\* has the parent_length and the spans of z; zeroed(m) leaves the spans of m
\* as they were and its smallest non-lost start is 0.
C30_RoundTrip ==
    /\ op.name = "from_rich_dict"
       => /\ res.kind = "map"
          /\ res.val.parent_length = op.self.parent_length
          /\ SameSpans(res.val.spans, op.self.spans)
    /\ (op.name = "zeroed" /\ res.kind = "map")
       => /\ a = op.self
          /\ \A k \in 1..Len(res.val.spans) :
                ~res.val.spans[k].lost => res.val.spans[k].start >= 0
          /\ res.val.useful
             => \E k \in 1..Len(res.val.spans) :
                   ~res.val.spans[k].lost /\ res.val.spans[k].start = 0

\* ---------------------------------------------------------------------
\* LostSpan cache state machine: a is _lost_span_cache
\* ---------------------------------------------------------------------
\* the maps the span and map operations are called on
CacheParents ==
    {FeatureMapNew(<<Span2(0, 2)>>, 2),
     FeatureMapNew(<<Span2(0, 3)>>, 2),
     FeatureMapNew(<<LostSpanNew(1, None), Span2(0, 2)>>, 2),
     FeatureMapNew(<<Span2(1, 2), LostSpanNew(2, None)>>, 2),
     FeatureMapNew(<<SpanNew(0, Some(2), FALSE, FALSE, None, TRUE), Span2(2, 3)>>, 3)}

InitC ==
    /\ a = EmptyDict
    /\ op = [name |-> "new"]
    /\ res = NoneRes

\* LostSpan(length, value), for a small length or one of the two lengths
\* either side of the limit
DoLostSpan ==
    /\ Idle
    /\ \E length \in (1..(MaxLost + 1)) \cup {CacheLimit - 1, CacheLimit}, value \in {None, Some("v")} :
        LET r == LostSpan(a, length, value)
        IN /\ op' = [name |-> "LostSpan", length |-> length, value |-> value,
                     before |-> a]
           /\ res' = SpansRes(<<r.span>>)
           /\ a' = r.cache

\* LostSpan(length, value) * scale
DoLostSpanMul ==
    /\ Idle
    /\ \E length \in (1..(MaxLost + 1)) \cup {CacheLimit - 1, CacheLimit},
          value \in {None, Some("v")}, scale \in 1..MaxScale :
        LET made == LostSpan(a, length, value)
            r == LostSpan(made.cache, made.span.length * scale, made.span.value)
        IN /\ op' = [name |-> "mul", before |-> a]
           /\ res' = SpansRes(<<r.span>>)
           /\ a' = r.cache

\* s.remap_with(m), for a map m the caller builds first
DoRemapWithCached ==
    /\ Idle
    /\ \E m \in CacheParents, s \in ItemSpans :
        LET r == RemapWith(s, m, CacheAdd(a, m.spans, 1))
        IN /\ op' = [name |-> "remap_with", before |-> a]
           /\ res' = IF r.raised THEN Raise(r.exc)
                     ELSE SpansRes(Resolve(r.result, r.map))
           /\ a' = r.cache

\* m[item], for a map m the caller builds first
DoGetItemCached ==
    /\ Idle
    /\ \E m \in CacheParents :
        \E item \in Items(m) :
            LET r == FeatureGetItem(m, item, CacheAdd(a, m.spans, 1))
            IN /\ op' = [name |-> "getitem", before |-> a]
               /\ res' = r.res
               /\ a' = r.cache

\* m.zeroed(), for a map m the caller builds first
DoZeroedCached ==
    /\ Idle
    /\ \E m \in CacheParents :
        LET r == Zeroed(m, CacheAdd(a, m.spans, 1))
        IN /\ op' = [name |-> "zeroed", before |-> a]
           /\ res' = r.res
           /\ a' = r.cache

NextC ==
    \/ DoLostSpan
    \/ DoLostSpanMul
    \/ DoRemapWithCached
    \/ DoGetItemCached
    \/ DoZeroedCached
    \/ Discard

SpecC == InitC /\ [][NextC]_vars

\* C26: LostSpan cache invariant. Whatever calls were made, the cache has
\* every entry it had before the last call, unchanged; the entry under key
\* n is a lost span of length n without a value; LostSpan(n) with n below
\* the limit and no value returns that entry; a call with a value or with
\* n at or above the limit leaves the cache as it was and returns a span
\* with the length and the value asked for.
C26_CacheInvariant ==
    /\ \A n \in DOMAIN a :
          /\ n < CacheLimit
          /\ a[n].lost
          /\ a[n].length = n
          /\ IsNone(a[n].value)
    /\ op.name # "new"
       => /\ DOMAIN op.before \subseteq DOMAIN a
          /\ \A n \in DOMAIN op.before : a[n] = op.before[n]
    /\ op.name = "LostSpan"
       => LET span == res.val[1]
          IN /\ span.lost
             /\ span.length = op.length
             /\ span.value = op.value
             /\ IF IsNone(op.value) /\ op.length < CacheLimit
                THEN op.length \in DOMAIN a /\ a[op.length] = span
                ELSE a = op.before

\* a call with a value, for a length the cache already holds: the cache
\* stays as it was after map operations and calls at the limit
C26_Witness ==
    /\ op.name = "LostSpan"
    /\ op.length = 1
    /\ op.value = Some("v")
    /\ res.val[1].value = Some("v")
    /\ {1, 2, CacheLimit - 1} \subseteq DOMAIN a
    /\ IsNone(a[1].value)
====
